---- MODULE Spec2Model ----
(***************************************************************************)
(* Template structure inference and content reconciliation.                *)
(*                                                                         *)
(* The document tree is a heap of nodes addressed by identity, because the *)
(* program keeps references to nodes (header_element, content_element)     *)
(* across destructive mutations.  Text is a sequence of one-character      *)
(* strings so that strip / lower / whitespace collapse / substring tests   *)
(* are computed, not assumed.                                              *)
(***************************************************************************)
EXTENDS Naturals, Integers, Sequences, FiniteSets, TLC

\* ------------------------------------------------------------------ bounds
MaxTop == 2
MaxBlocks == 2

\* ------------------------------------------------------------------ text
Ws == {" "}

LowerSeq == <<"a", "b", "c", "d", "e", "f", "g", "h", "i", "j", "k", "l", "m", "n", "o", "p", "q", "r", "s", "t", "u", "v", "w", "x", "y", "z", "å", "ä", "ö">>

UpperSeq == <<"A", "B", "C", "D", "E", "F", "G", "H", "I", "J", "K", "L", "M", "N", "O", "P", "Q", "R", "S", "T", "U", "V", "W", "X", "Y", "Z", "Å", "Ä", "Ö">>

Lower(s) ==
    [i \in 1..Len(s) |->
        IF (\E j \in 1..Len(UpperSeq) : UpperSeq[j] = s[i]) THEN LowerSeq[CHOOSE j \in 1..Len(UpperSeq) : UpperSeq[j] = s[i]]
        ELSE s[i]]

IsBlank(s) == \A i \in 1..Len(s) : s[i] \in Ws

Strip(s) ==
    IF IsBlank(s) THEN <<>>
    ELSE LET nb == {i \in 1..Len(s) : s[i] \notin Ws}
             lo == CHOOSE i \in nb : \A j \in nb : i <= j
             hi == CHOOSE i \in nb : \A j \in nb : i >= j
         IN SubSeq(s, lo, hi)

RECURSIVE CollapseWs(_)
CollapseWs(s) ==
    IF s = <<>> THEN <<>>
    ELSE IF Head(s) \in Ws
         THEN LET rest == CollapseWs(Tail(s))
              IN IF rest # <<>> /\ Head(rest) = " " THEN rest ELSE <<" ">> \o rest
         ELSE <<Head(s)>> \o CollapseWs(Tail(s))

Contains(a, b) ==
    \E i \in 0..Len(a) : i + Len(b) <= Len(a) /\ SubSeq(a, i + 1, i + Len(b)) = b

StartsWith(s, p) == Len(s) >= Len(p) /\ SubSeq(s, 1, Len(p)) = p

EndsWith(s, p) == Len(s) >= Len(p) /\ SubSeq(s, Len(s) - Len(p) + 1, Len(s)) = p

IsUpper(s) ==
    /\ \E i \in 1..Len(s) : (\E j \in 1..Len(UpperSeq) : UpperSeq[j] = s[i])
    /\ \A i \in 1..Len(s) : s[i] \notin {LowerSeq[j] : j \in 1..Len(LowerSeq)}

RECURSIVE Replace(_, _, _)
Replace(s, old, new) ==
    IF Len(s) < Len(old) THEN s
    ELSE IF SubSeq(s, 1, Len(old)) = old
         THEN new \o Replace(SubSeq(s, Len(old) + 1, Len(s)), old, new)
         ELSE <<Head(s)>> \o Replace(Tail(s), old, new)

RECURSIVE SeqConcat(_)
SeqConcat(ss) == IF ss = <<>> THEN <<>> ELSE Head(ss) \o SeqConcat(Tail(ss))

RECURSIVE SeqSum(_)
SeqSum(ns) == IF ns = <<>> THEN 0 ELSE Head(ns) + SeqSum(Tail(ns))

IndexOf(s, x) == CHOOSE i \in 1..Len(s) : s[i] = x /\ \A j \in 1..(i - 1) : s[j] # x

is_placeholder_text(text) ==
    LET t == Strip(text)
    IN /\ text # <<>>
       /\ \/ StartsWith(t, <<"(">>) /\ EndsWith(t, <<")">>)
          \/ StartsWith(t, <<"[">>) /\ EndsWith(t, <<"]">>)

\* ------------------------------------------------------------------ tree
\* A template is written as a nested literal and flattened into the heap in
\* document (pre-order) order, which is the order find_all visits it.
Txt(s) == [tag |-> "#text", txt |-> s, style |-> "", kids |-> <<>>]

El(tag, style, kids) == [tag |-> tag, txt |-> <<>>, style |-> style, kids |-> kids]

RECURSIVE Size(_)
Size(t) == 1 + SeqSum([i \in 1..Len(t.kids) |-> Size(t.kids[i])])

RECURSIVE Flat(_, _, _)
Flat(t, par, id) ==
    LET KidId(u, at, i) == at + 1 + SeqSum([j \in 1..(i - 1) |-> Size(u.kids[j])])
    IN
    << [tag |-> t.tag, txt |-> t.txt, style |-> t.style,
        kids |-> [i \in 1..Len(t.kids) |-> KidId(t, id, i)],
        par |-> par, live |-> TRUE, own |-> 0] >>
    \o SeqConcat([i \in 1..Len(t.kids) |-> Flat(t.kids[i], id, KidId(t, id, i))])

\* BeautifulSoup(html, 'html.parser'): node 1 is the document object.
Parse(tops) == Flat(El("doc", "", tops), 0, 1)

\* ------------------------------------------------------------------ DOM
IsText(h, n) == h[n].tag = "#text"

RECURSIVE Desc(_, _)
Desc(h, n) == SeqConcat([i \in 1..Len(h[n].kids) |-> <<h[n].kids[i]>> \o Desc(h, h[n].kids[i])])

SelfAndDesc(h, n) == <<n>> \o Desc(h, n)

Range(s) == {s[i] : i \in 1..Len(s)}

RECURSIVE Ancestors(_, _)
Ancestors(h, n) == IF h[n].par = 0 THEN <<>> ELSE <<h[n].par>> \o Ancestors(h, h[n].par)

Attached(h, n, root) == n = root \/ root \in Range(Ancestors(h, n))

\* get_text(strip=True): the stripped, non-empty strings below n, joined.
RECURSIVE GetText(_, _)
GetText(h, n) ==
    IF h[n].tag \in {"#text", "li"} THEN Strip(h[n].txt)
    ELSE SeqConcat([i \in 1..Len(h[n].kids) |-> GetText(h, h[n].kids[i])])

FollowingSiblings(h, n) ==
    IF h[n].par = 0 THEN <<>>
    ELSE LET ks == h[h[n].par].kids
         IN SubSeq(ks, IndexOf(ks, n) + 1, Len(ks))

\* find_parent(tags): nearest ancestor with one of the tags, 0 if none.
find_parent(h, n, tags) ==
    LET as == SelectSeq(Ancestors(h, n), LAMBDA a : h[a].tag \in tags)
    IN IF as = <<>> THEN 0 ELSE Head(as)

\* find(tag): first descendant with the tag, 0 if none.
find(h, n, tag) ==
    LET ds == SelectSeq(Desc(h, n), LAMBDA d : h[d].tag = tag)
    IN IF ds = <<>> THEN 0 ELSE Head(ds)

find_next_sibling(h, n, tag) ==
    LET ss == SelectSeq(FollowingSiblings(h, n), LAMBDA d : h[d].tag = tag)
    IN IF ss = <<>> THEN 0 ELSE Head(ss)

\* extract(): unlink n from its parent; the subtree below n stays intact.
extract(h, n) ==
    IF h[n].par = 0 THEN h
    ELSE [h EXCEPT ![h[n].par].kids = SelectSeq(@, LAMBDA y : y # n), ![n].par = 0]

\* decompose(): unlink n and destroy n and everything below it.  A
\* decomposed node has lost its attributes: parent, name, siblings and text
\* all read as absent.
decompose(h, n) ==
    LET sub == Range(SelfAndDesc(h, n))
        h1 == extract(h, n)
        dead == [tag |-> "", txt |-> <<>>, style |-> "", kids |-> <<>>, par |-> 0,
                 live |-> FALSE, own |-> 0]
    IN [i \in 1..Len(h) |-> IF i \in sub THEN dead ELSE h1[i]]

\* clear(): extract every child.
clear(h, n) ==
    [i \in 1..Len(h) |->
        IF i = n THEN [h[i] EXCEPT !.kids = <<>>]
        ELSE IF i \in Range(h[n].kids) THEN [h[i] EXCEPT !.par = 0]
        ELSE h[i]]

\* n.insert_after(m), for a detached m; the caller checks n has a parent.
insert_after(h, n, m) ==
    LET p == h[n].par
        ks == h[p].kids
        i == IndexOf(ks, n)
    IN [h EXCEPT ![p].kids = SubSeq(ks, 1, i) \o <<m>> \o SubSeq(ks, i + 1, Len(ks)),
                 ![m].par = p]

\* n.append(m), for a detached m.
append(h, n, m) == [h EXCEPT ![n].kids = Append(@, m), ![m].par = n]

\* ------------------------------------------------------------------ analyzer
Section(name, type, hdr, cell, conf) ==
    [name |-> name, type |-> type, hdr |-> hdr, cell |-> cell, conf |-> conf]

WithTag(h, ns, tag) == SelectSeq(ns, LAMBDA n : h[n].tag = tag)

\* for table in find_all('table'): for row in find_all('tr'): for cell in
\* find_all('td'): a section for every gray cell, none left out as seen.
detect_table_based_sections(h, root) ==
    LET tables == WithTag(h, Desc(h, root), "table")
        rowsOf(t) == WithTag(h, Desc(h, t), "tr")
        cellsOf(r) == WithTag(h, Desc(h, r), "td")
        inTable(t) == SeqConcat([j \in 1..Len(rowsOf(t)) |-> cellsOf(rowsOf(t)[j])])
        cells == SeqConcat([i \in 1..Len(tables) |-> inTable(tables[i])])
        name(c) == CollapseWs(GetText(h, c))
        hdrs == SelectSeq(cells,
                          LAMBDA c : h[c].style = "gray" /\ name(c) # <<>> /\ Len(name(c)) < 150)
    IN [i \in 1..Len(hdrs) |->
          Section(name(hdrs[i]), "table", hdrs[i], find_next_sibling(h, hdrs[i], "td"), "high")]

skip_titles == {<<"s", "l", "u", "t", "r", "a", "p", "p", "o", "r", "t">>,
                <<"m", "å", "n", "a", "d", "s", "r", "a", "p", "p", "o", "r", "t">>,
                <<"r", "a", "p", "p", "o", "r", "t">>,
                <<"d", "o", "c", "u", "m", "e", "n", "t">>,
                <<"r", "e", "p", "o", "r", "t">>}

\* The look-ahead of detect_text_based_sections: the placeholder found among
\* the next five siblings of the header's container, 0 if none.
RECURSIVE FindInstruction(_, _, _)
FindInstruction(h, sibs, checked) ==
    IF sibs = <<>> \/ checked >= 5 THEN 0
    ELSE LET e == Head(sibs)
             text == IF IsText(h, e) THEN Strip(h[e].txt) ELSE GetText(h, e)
         IN IF text # <<>> /\ is_placeholder_text(text) THEN e
            ELSE IF ~IsText(h, e) /\ (h[e].tag = "strong" \/ Len(text) > 50) THEN 0
            ELSE FindInstruction(h, Tail(sibs), checked + 1)

RECURSIVE DetectStrong(_, _, _, _)
DetectStrong(h, tags, seen, acc) ==
    IF tags = <<>> THEN acc
    ELSE LET t == Head(tags)
             text == GetText(h, t)
             instr == FindInstruction(h, FollowingSiblings(h, h[t].par), 0)
         IN IF \/ text = <<>> \/ Len(text) < 2
               \/ Lower(text) \in skip_titles
               \/ is_placeholder_text(text)
               \/ text \in seen
               \/ ~(Len(text) < 150)
            THEN DetectStrong(h, Tail(tags), seen, acc)
            ELSE DetectStrong(h, Tail(tags), seen \cup {text},
                     Append(acc, Section(text, "text", t, 0,
                                         IF instr # 0 THEN "high" ELSE "medium")))

detect_text_based_sections(h, root) ==
    DetectStrong(h, WithTag(h, Desc(h, root), "strong"), {}, <<>>)

analyze_template(h, root) ==
    LET table_sections == detect_table_based_sections(h, root)
        text_sections == detect_text_based_sections(h, root)
    IN IF table_sections # <<>> /\ text_sections = <<>>
       THEN [sections |-> table_sections, template_type |-> "table", soup |-> root]
       ELSE IF text_sections # <<>> /\ table_sections = <<>>
       THEN [sections |-> text_sections, template_type |-> "text", soup |-> root]
       ELSE IF table_sections # <<>> /\ text_sections # <<>>
       THEN [sections |-> table_sections \o text_sections, template_type |-> "mixed",
             soup |-> root]
       ELSE [sections |-> <<>>, template_type |-> "unknown", soup |-> root]

\* ------------------------------------------------------------------ matching
\* The block map is a dict: a sequence of [key, bullets] with distinct keys,
\* iterated in insertion order.
Normalize(name) == CollapseWs(Strip(Lower(name)))

\* The first index of a scan that breaks at its first hit; 0 when none hits.
FirstIndex(hits) ==
    IF hits = {} THEN 0 ELSE CHOOSE i \in hits : \A j \in hits : i <= j

\* The three lookups of map_bullets_to_template.  Each later lookup runs when
\* the bullets found so far are falsy (no block, or a block with no bullets).
\* blk = 0 stands for matched_bullets = None.
FindMatch(blks, section_name) ==
    LET section_normalized == Normalize(section_name)
        exact == FirstIndex({i \in 1..Len(blks) : Normalize(blks[i].key) = section_normalized})
        direct == FirstIndex({i \in 1..Len(blks) : blks[i].key = section_name})
        partial == FirstIndex({i \in 1..Len(blks) :
                       \/ Contains(Lower(blks[i].key), section_normalized)
                       \/ Contains(section_normalized, Lower(blks[i].key))})
        truthy(i) == i # 0 /\ blks[i].bullets # <<>>
    IN IF truthy(exact) THEN [blk |-> exact, strat |-> "exact"]
       ELSE IF truthy(direct) THEN [blk |-> direct, strat |-> "direct"]
       ELSE IF partial # 0 THEN [blk |-> partial, strat |-> "partial"]
       ELSE IF direct # 0 THEN [blk |-> direct, strat |-> "direct"]
       ELSE [blk |-> 0, strat |-> "none"]

placeholder_texts == {<<>>,
    <<"i", "n", "f", "o", "r", "m", "a", "t", "i", "o", "n", " ", "s", "a", "k", "n", "a", "s">>,
    <<"i", "n", "f", "o", "r", "m", "a", "t", "i", "o", "n", " ", "m", "i", "s", "s", "i", "n", "g">>,
    <<"i", "n", "g", "e", "n", " ", "i", "n", "f", "o", "r", "m", "a", "t", "i", "o", "n">>,
    <<"n", "o", " ", "i", "n", "f", "o", "r", "m", "a", "t", "i", "o", "n">>,
    <<"s", "a", "k", "n", "a", "s">>,
    <<"m", "i", "s", "s", "i", "n", "g">>,
    <<"n", "/", "a">>,
    <<"n", "o", "n", "e">>,
    <<"n", "e", "j">>,
    <<"n", "o">>}

text_placeholder_texts == {<<"i", "n", "f", "o", "r", "m", "a", "t", "i", "o", "n", " ", "s", "a", "k", "n", "a", "s">>,
    <<"i", "n", "f", "o", "r", "m", "a", "t", "i", "o", "n", " ", "m", "i", "s", "s", "i", "n", "g">>,
    <<"i", "n", "g", "e", "n", " ", "i", "n", "f", "o", "r", "m", "a", "t", "i", "o", "n">>,
    <<"n", "o", " ", "i", "n", "f", "o", "r", "m", "a", "t", "i", "o", "n">>,
    <<"s", "a", "k", "n", "a", "s">>,
    <<"m", "i", "s", "s", "i", "n", "g">>,
    <<"n", "/", "a">>,
    <<"n", "o", "n", "e">>,
    <<"n", "e", "j">>,
    <<"n", "o">>}

IsRealBullet(bullet, vocabulary) ==
    LET text == Lower(Strip(bullet)) IN text # <<>> /\ text \notin vocabulary

HasContent(bullets, vocabulary) ==
    \E i \in 1..Len(bullets) : IsRealBullet(bullets[i], vocabulary)

\* ------------------------------------------------------------------ mapper
\* create_bullet_html: a detached <ul> with one <li> per bullet, appended to
\* the heap.  own records the section the list was made for.
create_bullet_html(h, bullets, own) ==
    LET ul == Len(h) + 1
    IN h \o << [tag |-> "ul", txt |-> <<>>, style |-> "bullets",
                kids |-> [i \in 1..Len(bullets) |-> ul + i],
                par |-> 0, live |-> TRUE, own |-> own] >>
         \o [i \in 1..Len(bullets) |->
               [tag |-> "li", txt |-> bullets[i], style |-> "", kids |-> <<>>,
                par |-> ul, live |-> TRUE, own |-> own]]

new_tag(h, tag, style, own) ==
    Append(h, [tag |-> tag, txt |-> <<>>, style |-> style, kids |-> <<>>,
               par |-> 0, live |-> TRUE, own |-> own])

Result(h, raised) == [h |-> h, raised |-> raised]

map_table_section(h, section, section_bullets, own) ==
    IF section.cell = 0 \/ section_bullets = <<>> THEN Result(h, FALSE)
    ELSE LET h1 == clear(h, section.cell)
             h2 == create_bullet_html(h1, section_bullets, own)
         IN Result(append(h2, section.cell, Len(h1) + 1), FALSE)

IsHeaderLike(text) == text # <<>> /\ Len(text) > 3 /\ IsUpper(text)

\* The forward sweep of map_text_section: the siblings to remove.
RECURSIVE FillSweep(_, _, _, _, _)
FillSweep(h, sibs, checked_count, content_div, acc) ==
    IF sibs = <<>> \/ ~(checked_count < 20) THEN acc
    ELSE LET e == Head(sibs)
             text == IF IsText(h, e) THEN Strip(h[e].txt) ELSE GetText(h, e)
             inner_strong == find(h, e, "strong")
             next(a) == FillSweep(h, Tail(sibs), checked_count + 1, content_div, a)
             has_real_content ==
                 \E d \in Range(Desc(h, e)) :
                     \/ /\ IsText(h, d)
                        /\ Strip(h[d].txt) # <<>>
                        /\ ~is_placeholder_text(Strip(h[d].txt))
                        /\ Len(Strip(h[d].txt)) > 5
                     \/ h[d].tag = "strong" /\ IsHeaderLike(GetText(h, d))
             has_placeholder ==
                 \E d \in Range(Desc(h, e)) :
                     IsText(h, d) /\ Strip(h[d].txt) # <<>> /\ is_placeholder_text(Strip(h[d].txt))
         IN IF e = content_div THEN next(acc)
            ELSE IF IsText(h, e)
            THEN IF text # <<>> /\ is_placeholder_text(text) THEN next(Append(acc, e))
                 ELSE next(acc)
            ELSE IF h[e].tag = "strong" /\ IsHeaderLike(text) THEN acc
            ELSE IF /\ h[e].tag \in {"p", "div"}
                    /\ inner_strong # 0
                    /\ IsHeaderLike(GetText(h, inner_strong)) THEN acc
            ELSE IF text # <<>> /\ is_placeholder_text(text) THEN next(Append(acc, e))
            ELSE IF h[e].tag \in {"div", "p"}
            THEN IF has_real_content THEN acc
                 ELSE IF has_placeholder THEN next(Append(acc, e))
                 ELSE next(acc)
            ELSE next(acc)

\* for elem in elements_to_remove: decompose() a tag, extract() a string.
RECURSIVE RemoveAll(_, _)
RemoveAll(h, elems) ==
    IF elems = <<>> THEN h
    ELSE RemoveAll(IF IsText(h, Head(elems)) THEN extract(h, Head(elems))
                   ELSE decompose(h, Head(elems)), Tail(elems))

map_text_section(h, section, section_bullets, own) ==
    LET header_element == section.hdr
        filtered_bullets == SelectSeq(section_bullets,
                                LAMBDA b : IsRealBullet(b, text_placeholder_texts))
        h1 == create_bullet_html(h, filtered_bullets, own)
        bullet_list == Len(h) + 1
        h2 == new_tag(h1, "div", "content", own)
        content_div == Len(h1) + 1
        h3 == append(h2, content_div, bullet_list)
        parent_container == h[header_element].par
        search_start == IF parent_container # 0 /\ h[parent_container].tag # "doc"
                        THEN parent_container ELSE header_element
        h4 == insert_after(h3, search_start, content_div)
        elements_to_remove == FillSweep(h4, FollowingSiblings(h4, search_start), 0,
                                        content_div, <<>>)
    IN IF section_bullets = <<>> \/ filtered_bullets = <<>> THEN Result(h, FALSE)
       \* insert_after raises ValueError on an element that has no parent
       ELSE IF h[search_start].par = 0 THEN Result(h3, TRUE)
       ELSE Result(RemoveAll(h4, elements_to_remove), FALSE)

remove_table_section(h, section) ==
    LET parent_row == find_parent(h, section.hdr, {"tr"})
    IN IF parent_row # 0 THEN decompose(h, parent_row) ELSE h

\* The forward scan of remove_text_section: the siblings to remove.
RECURSIVE RemoveSweep(_, _, _, _)
RemoveSweep(h, sibs, checked_count, acc) ==
    IF sibs = <<>> \/ ~(checked_count < 10) THEN acc
    ELSE LET e == Head(sibs)
             text == IF IsText(h, e) THEN Strip(h[e].txt) ELSE GetText(h, e)
         IN IF text = <<>> \/ is_placeholder_text(text)
            THEN RemoveSweep(h, Tail(sibs), checked_count + 1, Append(acc, e))
            ELSE IF ~IsText(h, e) /\ h[e].tag \in {"strong", "h1", "h2"} THEN acc
            ELSE RemoveSweep(h, Tail(sibs), checked_count + 1, acc)

remove_text_section(h, section) ==
    LET header_element == section.hdr
        parent == h[header_element].par
        search_start == IF parent # 0 THEN parent ELSE header_element
    IN RemoveAll(h, <<search_start>>
                    \o RemoveSweep(h, FollowingSiblings(h, search_start), 0, <<>>))

\* ------------------------------------------------------------------ output
\* str(soup): the document as a sequence of tokens.
Tok(k, tag, style, s) == [k |-> k, tag |-> tag, style |-> style, s |-> s]

RECURSIVE Serialize(_, _)
Serialize(h, n) ==
    LET inner == SeqConcat([i \in 1..Len(h[n].kids) |-> Serialize(h, h[n].kids[i])])
        open == Tok("open", h[n].tag, h[n].style, <<>>)
        close == Tok("close", h[n].tag, "", <<>>)
    IN IF h[n].tag = "#text"
       THEN (IF h[n].txt = <<>> THEN <<>> ELSE <<Tok("text", "", "", h[n].txt)>>)
       ELSE IF h[n].tag = "doc" THEN inner
       ELSE IF h[n].tag \in {"br", "img"} THEN <<Tok("void", h[n].tag, h[n].style, <<>>)>>
       ELSE IF h[n].tag = "li"
       THEN <<open, Tok("text", "", "", h[n].txt), close>>
       ELSE <<open>> \o inner \o <<close>>

IsBr(t) == t.k = "void" /\ t.tag = "br"

\* Length of the longest prefix of toks made of <br/> and whitespace.
BrRun(toks) ==
    LET ok == {n \in 0..Len(toks) : \A i \in 1..n : IsBr(toks[i]) \/ (toks[i].k = "text" /\ IsBlank(toks[i].s))}
    IN CHOOSE n \in ok : \A m \in ok : m <= n

WsRun(toks) ==
    LET ok == {n \in 0..Len(toks) : \A i \in 1..n : toks[i].k = "text" /\ IsBlank(toks[i].s)}
    IN CHOOSE n \in ok : \A m \in ok : m <= n

Drop(toks, n) == SubSeq(toks, n + 1, Len(toks))

\* re.sub(r'(<br\s*/?>\s*){3,}', '<br/><br/>', html)
RECURSIVE CollapseBr(_)
CollapseBr(toks) ==
    IF toks = <<>> THEN <<>>
    ELSE IF IsBr(Head(toks))
    THEN LET n == BrRun(toks)
         IN IF Cardinality({i \in 1..n : IsBr(toks[i])}) >= 3
            THEN <<Tok("void", "br", "", <<>>), Tok("void", "br", "", <<>>)>>
                 \o CollapseBr(Drop(toks, n))
            ELSE SubSeq(toks, 1, n) \o CollapseBr(Drop(toks, n))
    ELSE <<Head(toks)>> \o CollapseBr(Tail(toks))

IsOpen(t, tag) == t.k = "open" /\ t.tag = tag

IsClose(t, tag) == t.k = "close" /\ t.tag = tag

\* re.sub(r'</div>\s*(<br\s*/?>\s*)+<div', '</div><div', html)
RECURSIVE BrBetweenDivs(_)
BrBetweenDivs(toks) ==
    IF toks = <<>> THEN <<>>
    ELSE LET rest == Tail(toks)
             m == WsRun(rest)
             k == IF m < Len(rest) /\ IsBr(rest[m + 1]) THEN m + BrRun(Drop(rest, m)) ELSE 0
         IN IF IsClose(Head(toks), "div") /\ k > 0 /\ k < Len(rest) /\ IsOpen(rest[k + 1], "div")
            THEN <<Head(toks)>> \o BrBetweenDivs(Drop(rest, k))
            ELSE <<Head(toks)>> \o BrBetweenDivs(rest)

\* re.sub(r'(<br\s*/?>\s*)+</div>', '</div>', html)
RECURSIVE BrBeforeClose(_)
BrBeforeClose(toks) ==
    IF toks = <<>> THEN <<>>
    ELSE IF IsBr(Head(toks))
    THEN LET n == BrRun(toks)
         IN IF n < Len(toks) /\ IsClose(toks[n + 1], "div")
            THEN BrBeforeClose(Drop(toks, n))
            ELSE SubSeq(toks, 1, n) \o BrBeforeClose(Drop(toks, n))
    ELSE <<Head(toks)>> \o BrBeforeClose(Tail(toks))

\* re.sub(r'<tag[^>]*>\s*</tag>', '', html): one left-to-right pass.
RECURSIVE DropEmpty(_, _)
DropEmpty(toks, tag) ==
    IF toks = <<>> THEN <<>>
    ELSE LET rest == Tail(toks)
             n == WsRun(rest)
         IN IF IsOpen(Head(toks), tag) /\ n < Len(rest) /\ IsClose(rest[n + 1], tag)
            THEN DropEmpty(Drop(rest, n + 1), tag)
            ELSE <<Head(toks)>> \o DropEmpty(rest, tag)

clean_up_html_spacing(html_content) ==
    DropEmpty(DropEmpty(BrBeforeClose(BrBetweenDivs(CollapseBr(html_content))), "div"), "span")

\* ------------------------------------------------------------------ metadata
\* datetime.now().strftime('%Y-%m-%d'); the model's days differ in one digit.
strftime(day) == <<"2", "0", "2", "6", "-", "1", "1", "-", "0", IF day = 1 THEN "1" ELSE "2">>

MetaDate == <<"[", "D", "a", "g", "e", "n", "s", " ", "d", "a", "t", "u", "m", "]">>

\* The four str.replace calls of map_bullets_to_template, on one text.
ReplaceMetadata(text, day) ==
    LET t1 == Replace(text, MetaDate, strftime(day))
        t2 == Replace(t1, <<"[", "F", "ö", "r", "n", "a", "m", "n", "]">>, <<>>)
        t3 == Replace(t2, <<"[", "E", "f", "t", "e", "r", "n", "a", "m", "n", "]">>, <<>>)
    IN Replace(t3, <<"[", "P", "e", "r", "s", "o", "n", "n", "u", "m", "m", "e", "r", "]">>, <<>>)

\* Adjacent strings of the serialized document parse as one string.
RECURSIVE MergeText(_)
MergeText(ts) ==
    IF Len(ts) < 2 THEN ts
    ELSE IF ts[1].tag = "#text" /\ ts[2].tag = "#text"
         THEN MergeText(<<Txt(ts[1].txt \o ts[2].txt)>> \o Drop(ts, 2))
         ELSE <<Head(ts)>> \o MergeText(Tail(ts))

\* ------------------------------------------------------------------ vårdplan analyzer
Digits == {"0", "1", "2", "3", "4", "5", "6", "7", "8", "9"}

\* re.match(r'^\d{4}-\d{2}-\d{2}$', text)
IsDate(text) ==
    /\ Len(text) = 10
    /\ text[5] = "-" /\ text[8] = "-"
    /\ \A i \in {1, 2, 3, 4, 6, 7, 9, 10} : text[i] \in Digits

static_headers == {<<"v", "å", "r", "d", "p", "l", "a", "n">>,
    <<"g", "e", "n", "o", "m", "f", "ö", "r", "a", "n", "d", "e", "p", "l", "a", "n">>,
    <<"s", "l", "u", "t", "r", "a", "p", "p", "o", "r", "t">>,
    <<"m", "å", "n", "a", "d", "s", "r", "a", "p", "p", "o", "r", "t">>,
    <<"s", "o", "c", "i", "a", "l", "s", "e", "k", "r", "e", "t", "e", "r", "a", "r", "e">>,
    <<"k", "o", "n", "s", "u", "l", "e", "n", "t">>,
    <<"n", "ä", "r", "v", "a", "r", "a", "n", "d", "e">>,
    <<"h", "a", "n", "d", "l", "ä", "g", "g", "a", "r", "e">>,
    <<"m", "e", "d", "h", "a", "n", "d", "l", "ä", "g", "g", "a", "r", "e">>,
    <<"a", "n", "s", "v", "a", "r", "i", "g", " ", "h", "a", "n", "d", "l", "ä", "g", "g", "a", "r", "e">>,
    <<"h", "a", "n", "d", "l", "i", "n", "g", " ", "u", "p", "p", "r", "ä", "t", "t", "a", "d">>,
    <<"d", "a", "g", "e", "n", "s", " ", "d", "a", "t", "u", "m">>,
    <<"d", "a", "t", "u", "m">>,
    <<"f", "ö", "r", "n", "a", "m", "n">>,
    <<"e", "f", "t", "e", "r", "n", "a", "m", "n">>,
    <<"p", "e", "r", "s", "o", "n", "n", "u", "m", "m", "e", "r">>,
    <<"n", "a", "m", "n">>,
    <<"b", "a", "r", "n", "e", "t">>,
    <<"v", "å", "r", "d", "n", "a", "d", "s", "h", "a", "v", "a", "r", "e">>,
    <<"t", "e", "l", "e", "f", "o", "n">>,
    <<"m", "o", "b", "i", "l">>,
    <<"e", "-", "p", "o", "s", "t">>,
    <<"f", "o", "l", "k", "b", "o", "k", "f", "ö", "r", "i", "n", "g", "s", "a", "d", "r", "e", "s", "s">>,
    <<"f", "u", "l", "l", "s", "t", "ä", "n", "d", "i", "g", " ", "a", "d", "r", "e", "s", "s">>,
    <<"u", "n", "d", "e", "r", "s", "k", "r", "i", "f", "t">>,
    <<"n", "a", "m", "n", "f", "ö", "r", "t", "y", "d", "l", "i", "g", "a", "n", "d", "e">>}

is_metadata_keyword(text) ==
    /\ text # <<>>
    /\ \E header \in static_headers :
          LET t == Strip(Lower(text))
          IN t = header \/ StartsWith(t, header \o <<":">>)

RECURSIVE DetectBold(_, _, _, _)
DetectBold(h, bolds, seen_names, acc) ==
    IF bolds = <<>> THEN acc
    ELSE LET bold == Head(bolds)
             text == GetText(h, bold)
         IN IF \/ text = <<>> \/ Len(text) < 2 \/ Len(text) > 150
               \/ IsDate(text)
               \/ is_metadata_keyword(text)
               \/ is_placeholder_text(text)
               \/ text \in seen_names
            THEN DetectBold(h, Tail(bolds), seen_names, acc)
            ELSE DetectBold(h, Tail(bolds), seen_names \cup {text},
                     Append(acc, Section(text, "inline_table", bold, 0, "high")))

\* for table in find_all('table'): for cell in table.find_all(['td', 'th']),
\* over bold_elements of the cell: its strong/b tags, then its bold spans.
detect_bold_sections_in_cell(h, root) ==
    LET tables == WithTag(h, Desc(h, root), "table")
        cellsOf(t) == SelectSeq(Desc(h, t), LAMBDA n : h[n].tag \in {"td", "th"})
        bold_elements(cell) ==
            SelectSeq(Desc(h, cell), LAMBDA n : h[n].tag \in {"strong", "b"})
            \o SelectSeq(Desc(h, cell), LAMBDA n : h[n].tag = "span" /\ h[n].style = "bold")
        boldsOf(t) == SeqConcat([j \in 1..Len(cellsOf(t)) |-> bold_elements(cellsOf(t)[j])])
    IN DetectBold(h, SeqConcat([i \in 1..Len(tables) |-> boldsOf(tables[i])]), {}, <<>>)

RECURSIVE VpDetectStrong(_, _, _, _)
VpDetectStrong(h, tags, seen_names, acc) ==
    IF tags = <<>> THEN acc
    ELSE LET strong_tag == Head(tags)
             text == GetText(h, strong_tag)
         IN IF \/ find_parent(h, strong_tag, {"table"}) # 0
               \/ text = <<>> \/ Len(text) < 2 \/ Len(text) > 150
               \/ is_metadata_keyword(text)
               \/ is_placeholder_text(text)
               \/ text \in seen_names
            THEN VpDetectStrong(h, Tail(tags), seen_names, acc)
            ELSE VpDetectStrong(h, Tail(tags), seen_names \cup {text},
                     Append(acc, Section(text, "text", strong_tag, 0, "high")))

vp_detect_text_based_sections(h, root) ==
    VpDetectStrong(h, WithTag(h, Desc(h, root), "strong"), {}, <<>>)

analyze_vardplan_template(h, root) ==
    LET inline_sections == detect_bold_sections_in_cell(h, root)
        text_sections == vp_detect_text_based_sections(h, root)
    IN IF inline_sections # <<>>
       THEN [sections |-> inline_sections, template_type |-> "inline_table", soup |-> root]
       ELSE IF text_sections # <<>>
       THEN [sections |-> text_sections, template_type |-> "text", soup |-> root]
       ELSE [sections |-> <<>>, template_type |-> "unknown", soup |-> root]

\* ------------------------------------------------------------------ vårdplan mapper
LStrip(s) ==
    IF IsBlank(s) THEN <<>>
    ELSE LET nb == {i \in 1..Len(s) : s[i] \notin Ws}
         IN SubSeq(s, CHOOSE i \in nb : \A j \in nb : i <= j, Len(s))

\* The patterns are searched with re.IGNORECASE: r'\(var,?\s*när\)' anywhere,
\* r'^-\s*Att x\s' and the instruction phrases at the start.
is_template_placeholder_text(text) ==
    LET
        instruction_starts == {<<"b", "e", "s", "k", "r", "i", "v">>,
            <<"k", "a", "n", " ", "ä", "v", "e", "n">>,
            <<"h", "u", "r", " ", "h", "a", "r", " ", "d", "e", "t">>,
            <<"p", "l", "a", "n", "e", "r", "i", "n", "g">>,
            <<"u", "p", "p", "p", "f", "ö", "l", "j", "n", "i", "n", "g", " ", "k", "o", "m", "m", "e", "r">>,
            <<".", ".", ".", ".", ".", ".">>}
        t == Strip(text)
        l == Lower(t)
        nar == <<"n", "ä", "r", ")">>
        MatchesVarNar(s) ==
            \E i \in 1..Len(s) :
                /\ StartsWith(Drop(s, i - 1), <<"(", "v", "a", "r">>)
                /\ LET r == Drop(s, i + 3)
                       r1 == IF r # <<>> /\ Head(r) = "," THEN Tail(r) ELSE r
                   IN StartsWith(LStrip(r1), nar) \/ StartsWith(LStrip(r), nar)
        MatchesAttX(s) ==
            /\ s # <<>> /\ Head(s) = "-"
            /\ LET r == LStrip(Tail(s))
               IN StartsWith(r, <<"a", "t", "t", " ", "x">>) /\ Len(r) > 5 /\ r[6] \in Ws
    IN /\ text # <<>>
       /\ \/ t = <<>>
          \/ is_placeholder_text(t)
          \/ \E p \in instruction_starts : StartsWith(l, p)
          \/ MatchesVarNar(l)
          \/ MatchesAttX(l)

\* remove_placeholders_after_element: the siblings it removes.
RECURSIVE VpSweep(_, _, _, _)
VpSweep(h, sibs, checked, acc) ==
    IF sibs = <<>> \/ ~(checked < 30) THEN acc
    ELSE LET current == Head(sibs)
             text == IF IsText(h, current) THEN Strip(h[current].txt) ELSE GetText(h, current)
             ul == find(h, current, "ul")
             next(a) == VpSweep(h, Tail(sibs), checked + 1, a)
         IN IF IsText(h, current)
            THEN IF text = <<>> \/ is_template_placeholder_text(text)
                 THEN next(Append(acc, current)) ELSE next(acc)
            ELSE IF h[current].tag = "br" THEN next(Append(acc, current))
            ELSE IF h[current].tag \in {"span", "div", "p"}
            THEN IF ul # 0 /\ h[ul].style # "" THEN acc
                 ELSE IF text = <<>> \/ is_template_placeholder_text(text)
                 THEN next(Append(acc, current))
                 ELSE IF Len(text) > 300 THEN next(Append(acc, current))
                 ELSE next(acc)
            ELSE IF h[current].tag \in {"strong", "b"}
            THEN IF text # <<>> /\ (IsUpper(text) \/ Len(text) > 10) THEN acc
                 ELSE next(Append(acc, current))
            ELSE next(acc)

remove_placeholders_after_element(h, element) ==
    RemoveAll(h, VpSweep(h, FollowingSiblings(h, element), 0, <<>>))

RECURSIVE ReplaceEach(_, _, _)
ReplaceEach(text, olds, new) ==
    IF olds = {} THEN text
    ELSE LET o == CHOOSE x \in olds : TRUE
         IN ReplaceEach(Replace(text, o, new), olds \ {o}, new)

vp_placeholder_texts == {<<>>,
    <<"i", "n", "f", "o", "r", "m", "a", "t", "i", "o", "n", " ", "s", "a", "k", "n", "a", "s">>,
    <<"i", "n", "f", "o", "r", "m", "a", "t", "i", "o", "n", " ", "s", "a", "k", "n", "a", "s", " ", "i", " ", "d", "o", "k", "u", "m", "e", "n", "t", "e", "n">>,
    <<"i", "n", "g", "e", "n", " ", "i", "n", "f", "o", "r", "m", "a", "t", "i", "o", "n">>,
    <<"s", "a", "k", "n", "a", "s">>,
    <<"n", "/", "a">>,
    <<"n", "o", "n", "e">>,
    <<"n", "e", "j">>,
    <<"n", "o">>}

\* The single lookup loop of map_vardplan_bullets and map_monthly_bullets:
\* the first key, in dict order, equal to or containing or contained in the
\* section name (normalized).
FuzzyMatch(blks, section_name) ==
    LET section_norm == Normalize(section_name)
        hit == FirstIndex({i \in 1..Len(blks) :
                   \/ section_norm = Normalize(blks[i].key)
                   \/ Contains(Normalize(blks[i].key), section_norm)
                   \/ Contains(section_norm, Normalize(blks[i].key))})
    IN [blk |-> hit,
        strat |-> IF hit = 0 THEN "none"
                  ELSE IF Normalize(blks[hit].key) = section_norm THEN "exact"
                  ELSE "partial"]

\* Both vårdplan map functions wrap the unfiltered bullets in a div and
\* insert it after insert_point; a ValueError from insert_after is caught
\* and reported as ok = FALSE.
VpInsert(h, insert_point, bullets, style, own) ==
    LET h1 == create_bullet_html(h, bullets, own)
        h2 == new_tag(h1, "div", style, own)
        bullet_wrapper == Len(h1) + 1
        h3 == append(h2, bullet_wrapper, Len(h) + 1)
    IN IF h[insert_point].par = 0 THEN [h |-> h3, ok |-> FALSE]
       ELSE [h |-> remove_placeholders_after_element(
                       insert_after(h3, insert_point, bullet_wrapper), bullet_wrapper),
             ok |-> TRUE]

map_inline_table_section(h, section, bullets, own) ==
    VpInsert(h, IF h[section.hdr].par # 0 /\ h[h[section.hdr].par].tag = "span" THEN h[section.hdr].par ELSE section.hdr,
             bullets, "wrapper", own)

vp_map_text_section(h, section, bullets, own) ==
    VpInsert(h, IF h[section.hdr].par # 0 THEN h[section.hdr].par ELSE section.hdr,
             bullets, "wrapper", own)

remove_inline_table_section(h, section) ==
    LET h1 == remove_placeholders_after_element(h, section.hdr)
    IN decompose(h1, IF h1[section.hdr].par # 0 /\ h1[h1[section.hdr].par].tag = "span"
                     THEN h1[section.hdr].par
                     ELSE section.hdr)

vp_remove_text_section(h, section) ==
    LET h1 == remove_placeholders_after_element(h, section.hdr)
    IN decompose(h1, IF h1[section.hdr].par # 0 THEN h1[section.hdr].par ELSE section.hdr)

\* The four re.sub calls that end map_vardplan_bullets.  Only a span with no
\* attributes matches r'<span>\s*</span>'.
RECURSIVE DropEmptyPlainSpan(_)
DropEmptyPlainSpan(toks) ==
    IF toks = <<>> THEN <<>>
    ELSE LET rest == Tail(toks)
             n == WsRun(rest)
         IN IF /\ IsOpen(Head(toks), "span") /\ Head(toks).style = ""
               /\ n < Len(rest) /\ IsClose(rest[n + 1], "span")
            THEN DropEmptyPlainSpan(Drop(rest, n + 1))
            ELSE <<Head(toks)>> \o DropEmptyPlainSpan(rest)

\* ------------------------------------------------------------------ monthly analyzer
AsciiUpper == {UpperSeq[i] : i \in 1..26}

\* IsPersonalNumber is re.match(r'^\d{6}-[A-Z0-9]{4}$', text) and
\* IsConcatenatedName is re.match(r'^[A-Z][a-z]+[A-Z][a-z]+$', text).
is_metadata(text) ==
    LET
        METADATA_KEYWORDS == {<<"m", "å", "n", "a", "d", "s", "r", "a", "p", "p", "o", "r", "t">>,
            <<"s", "l", "u", "t", "r", "a", "p", "p", "o", "r", "t">>,
            <<"r", "a", "p", "p", "o", "r", "t">>,
            <<"d", "a", "g", "e", "n", "s", " ", "d", "a", "t", "u", "m">>,
            <<"f", "ö", "r", "n", "a", "m", "n">>, <<"e", "f", "t", "e", "r", "n", "a", "m", "n">>,
            <<"p", "e", "r", "s", "o", "n", "n", "u", "m", "m", "e", "r">>}
        t == Strip(text)
        IsPersonalNumber(s) ==
            /\ Len(s) = 11 /\ s[7] = "-"
            /\ \A i \in 1..6 : s[i] \in Digits
            /\ \A i \in 8..11 : s[i] \in Digits \cup AsciiUpper
        IsConcatenatedName(s) ==
            \E k \in 3..(Len(s) - 1) :
                /\ s[1] \in AsciiUpper /\ s[k] \in AsciiUpper
                /\ \A i \in (2..(k - 1)) \cup ((k + 1)..Len(s)) :
                       s[i] \in {LowerSeq[j] : j \in 1..26}
    IN \/ StartsWith(t, <<"[">>) /\ EndsWith(t, <<"]">>)
       \/ IsDate(t)
       \/ IsPersonalNumber(t)
       \/ IsConcatenatedName(t)
       \/ \E kw \in METADATA_KEYWORDS : Contains(Lower(t), kw)

\* decode_contents() split at <br/>, tags stripped, each part stripped.
RECURSIVE SplitAtBr(_, _, _)
SplitAtBr(h, leaves, cur) ==
    IF leaves = <<>> THEN <<Strip(cur)>>
    ELSE IF h[Head(leaves)].tag = "br"
         THEN <<Strip(cur)>> \o SplitAtBr(h, Tail(leaves), <<>>)
         ELSE SplitAtBr(h, Tail(leaves), cur \o h[Head(leaves)].txt)

\* Strategy 1 over a list of <<element, text>> pairs.
RECURSIVE MoDetectBold(_, _, _)
MoDetectBold(cands, seen, acc) ==
    IF cands = <<>> THEN [seen |-> seen, acc |-> acc]
    ELSE LET strong == Head(cands)[1]
             text == Head(cands)[2]
         IN IF text # <<>> /\ 3 <= Len(text) /\ Len(text) < 100 /\ text \notin seen
               /\ ~(StartsWith(Strip(text), <<"(">>) /\ Contains(Strip(text), <<")">>)
                    /\ Len(Strip(text)) > 20)
               /\ ~is_metadata(text)
            THEN MoDetectBold(Tail(cands), seen \cup {text},
                              Append(acc, Section(text, "bold", strong, 0, "high")))
            ELSE MoDetectBold(Tail(cands), seen, acc)

\* Strategy 2: gray table cells.
RECURSIVE MoDetectTable(_, _, _, _)
MoDetectTable(h, tds, seen, acc) ==
    IF tds = <<>> THEN [seen |-> seen, acc |-> acc]
    ELSE LET td == Head(tds)
             text == GetText(h, td)
         IN IF h[td].style = "gray" /\ text # <<>> /\ text \notin seen /\ Len(text) >= 3
               /\ ~is_metadata(text)
            THEN MoDetectTable(h, Tail(tds), seen \cup {text},
                     Append(acc, Section(text, "table", td,
                                         find_next_sibling(h, td, "td"), "high")))
            ELSE MoDetectTable(h, Tail(tds), seen, acc)

\* Strategy 3: strings that stand alone in a template paragraph.
RECURSIVE MoDetectText(_, _, _, _)
MoDetectText(h, strings, seen, acc) ==
    IF strings = <<>> THEN [seen |-> seen, acc |-> acc]
    ELSE LET child == Head(strings)
             text == Strip(h[child].txt)
             is_duplicate == \E existing \in seen :
                                 Len(text) < 5 /\ Contains(Lower(existing), Lower(text))
         IN IF /\ text # <<>> /\ Len(text) >= 3 /\ Len(text) <= 50
               /\ text \notin seen
               /\ ~is_metadata(text)
               /\ ~is_duplicate
               /\ Len(GetText(h, h[child].par)) <= Len(text) + 10
            THEN MoDetectText(h, Tail(strings), seen \cup {text},
                     Append(acc, Section(text, "text", child, 0, "medium")))
            ELSE MoDetectText(h, Tail(strings), seen, acc)

analyze_monthly_template(h, root) ==
    LET all == Desc(h, root)
        bolds == SelectSeq(all, LAMBDA n : h[n].tag \in {"strong", "b"})
        HeaderParts(strong) ==
            SplitAtBr(h, SelectSeq(Desc(h, strong), LAMBDA n : h[n].tag \in {"#text", "br"}), <<>>)
        partsOf(b) == [i \in 1..Len(HeaderParts(b)) |-> <<b, HeaderParts(b)[i]>>]
        s1 == MoDetectBold(SeqConcat([i \in 1..Len(bolds) |-> partsOf(bolds[i])]), {}, <<>>)
        s2 == MoDetectTable(h, WithTag(h, all, "td"), s1.seen, s1.acc)
        strings == SelectSeq(all, LAMBDA n : /\ IsText(h, n)
                                             /\ h[h[n].par].tag = "p"
                                             /\ h[h[n].par].style = "w650")
        s3 == MoDetectText(h, strings, s2.seen, s2.acc)
        table_count == Cardinality({i \in 1..Len(s3.acc) : s3.acc[i].type = "table"})
        text_count == Len(s3.acc) - table_count
    IN [sections |-> s3.acc,
        template_type |-> IF table_count > 0 /\ text_count = 0 THEN "table"
                          ELSE IF text_count > 0 /\ table_count = 0 THEN "text"
                          ELSE "mixed",
        soup |-> root]

\* ------------------------------------------------------------------ monthly mapper
instruction_keywords == {<<"u", "n", "d", "e", "r", "r", "u", "b", "r", "i", "k", ":">>,
    <<"m", "å", "l", "e", "n", " ", "s", "o", "m", " ", "s", "t", "å", "r">>,
    <<"g", "e", "n", "o", "m", "f", "ö", "r", "a", "n", "d", "e", "p", "l", "a", "n", "e", "n">>,
    <<"s", "a", "m", "t", "a", "l", "/">>,
    <<"f", "r", "e", "k", "v", "e", "n", "s">>,
    <<"a", "n", "p", "a", "s", "s", "a", "d">>,
    <<"n", "ä", "r", "v", "a", "r", "o">>,
    <<"d", "y", "g", "n", "s", "r", "y", "t", "m">>}

\* remove_instructions: the siblings it removes (for _ in range(15)).
RECURSIVE InstructionSweep(_, _, _, _)
InstructionSweep(h, sibs, n, acc) ==
    IF sibs = <<>> \/ ~(n < 15) THEN acc
    ELSE LET next_elem == Head(sibs)
             text == IF IsText(h, next_elem) THEN Strip(h[next_elem].txt)
                     ELSE GetText(h, next_elem)
             should_remove ==
                 IF IsText(h, next_elem) THEN text = <<>> \/ StartsWith(text, <<"(">>)
                 ELSE \/ h[next_elem].tag = "br"
                      \/ /\ h[next_elem].tag \in {"span", "div"}
                         /\ \/ StartsWith(text, <<"(">>)
                            \/ \E kw \in instruction_keywords : Contains(Lower(text), kw)
         IN IF should_remove
            THEN InstructionSweep(h, Tail(sibs), n + 1, Append(acc, next_elem))
            ELSE IF h[next_elem].tag \in {"ul", "div"} THEN acc
            ELSE InstructionSweep(h, Tail(sibs), n + 1, acc)

remove_instructions(h, element) ==
    RemoveAll(h, InstructionSweep(h, FollowingSiblings(h, element), 0, <<>>))

\* The text of str(parent) with the tags stripped.
RECURSIVE RawText(_, _)
RawText(h, n) ==
    IF h[n].tag \in {"#text", "li"} THEN h[n].txt
    ELSE SeqConcat([i \in 1..Len(h[n].kids) |-> RawText(h, h[n].kids[i])])

\* remove_header_element.  is_string tells a NavigableString header from a
\* tag; a destroyed string raises on .parents and nothing is removed.
remove_header_element(h, element, is_string) ==
    LET parent_container == find_parent(h, element, {"p", "div", "td"})
        parent_text == GetText(h, parent_container)
        header_text == GetText(h, element)
    IN IF is_string
       THEN IF ~h[element].live THEN [h |-> h, ok |-> FALSE]
            ELSE IF h[element].par # 0 THEN [h |-> decompose(h, h[element].par), ok |-> TRUE]
            ELSE [h |-> extract(h, element), ok |-> TRUE]
       ELSE IF h[element].tag \in {"strong", "b", "span"} /\ parent_container # 0
       THEN IF \/ parent_text = header_text
               \/ Len(parent_text) < Len(header_text) + 10
               \/ Len(Strip(RawText(h, parent_container))) = 0
            THEN [h |-> decompose(h, parent_container), ok |-> TRUE]
            ELSE [h |-> decompose(h, element), ok |-> TRUE]
       ELSE [h |-> decompose(h, element), ok |-> TRUE]

mo_placeholder_texts == {<<>>,
    <<"i", "n", "f", "o", "r", "m", "a", "t", "i", "o", "n", " ", "s", "a", "k", "n", "a", "s">>,
    <<"i", "n", "f", "o", "r", "m", "a", "t", "i", "o", "n", " ", "s", "a", "k", "n", "a", "s", " ", "i", " ", "d", "o", "k", "u", "m", "e", "n", "t", "e", "n">>,
    <<"i", "n", "g", "e", "n", " ", "i", "n", "f", "o", "r", "m", "a", "t", "i", "o", "n">>,
    <<"n", "o", " ", "i", "n", "f", "o", "r", "m", "a", "t", "i", "o", "n">>,
    <<"s", "a", "k", "n", "a", "s">>,
    <<"m", "i", "s", "s", "i", "n", "g">>,
    <<"n", "/", "a">>,
    <<"n", "o", "n", "e">>,
    <<"n", "e", "j">>,
    <<"n", "o">>}

\* The fill branch of map_monthly_bullets for one section.  ok is
\* insertion_success; skipped records a "continue" that leaves the loop body
\* before the post-insertion check.
MoFill(h, section, real_bullets, own) ==
    LET element == section.hdr
        h0 == remove_instructions(h, element)
        h1 == create_bullet_html(h0, real_bullets, own)
        bullet_list == Len(h0) + 1
        is_string == section.type = "text"
        string_ok == h0[element].live /\ h0[element].par # 0
        start == IF is_string THEN h0[element].par ELSE element
        container == find_parent(h0, start, {"p", "div", "span"})
        insert_element == IF h0[start].tag \in {"strong", "b"} /\ container # 0
                          THEN container ELSE start
        h2 == new_tag(h1, "div", "wrapper", own)
        bullet_div == Len(h1) + 1
        h3 == append(h2, bullet_div, bullet_list)
        failed == remove_header_element(h1, element, is_string)
    IN IF section.type = "table"
       THEN IF section.cell # 0
            THEN [h |-> append(clear(h1, section.cell), section.cell, bullet_list),
                  ok |-> TRUE, skipped |-> FALSE]
            ELSE [h |-> failed.h, ok |-> FALSE, skipped |-> FALSE]
       ELSE IF is_string /\ ~string_ok THEN [h |-> h1, ok |-> FALSE, skipped |-> TRUE]
       ELSE IF h0[insert_element].par = 0 THEN [h |-> h3, ok |-> FALSE, skipped |-> TRUE]
       ELSE [h |-> insert_after(h3, insert_element, bullet_div), ok |-> TRUE,
             skipped |-> FALSE]

\* The remove branch of map_monthly_bullets for one section.
MoRemove(h, section) ==
    LET element == section.hdr
        h0 == remove_instructions(h, element)
        row == find_parent(h0, element, {"tr"})
    IN IF section.type = "table"
       THEN decompose(h0, IF row # 0 THEN row ELSE element)
       ELSE remove_header_element(h0, element, section.type = "text").h

\* ---- the cleanup that ends map_monthly_bullets, on the token string
\* A pattern is a sequence of [k, tag, ws]; ws allows \s* before the token.
Pat(k, tag, ws) == [k |-> k, tag |-> tag, ws |-> ws]

\* Number of tokens the pattern matches at the head of toks, -1 if none.
RECURSIVE MatchAt(_, _)
MatchAt(toks, pat) ==
    IF pat = <<>> THEN 0
    ELSE LET skip == IF Head(pat).ws THEN WsRun(toks) ELSE 0
             rest == Drop(toks, skip)
             more == MatchAt(Tail(rest), Tail(pat))
         IN IF rest # <<>> /\ rest[1].k = Head(pat).k /\ rest[1].tag = Head(pat).tag
               /\ more >= 0
            THEN skip + 1 + more ELSE -1

RECURSIVE DropPattern(_, _)
DropPattern(toks, pat) ==
    IF toks = <<>> THEN <<>>
    ELSE IF MatchAt(toks, pat) > 0 THEN DropPattern(Drop(toks, MatchAt(toks, pat)), pat)
    ELSE <<Head(toks)>> \o DropPattern(Tail(toks), pat)

\* re.sub(r'<span style="font-family: Verdana...">.*?</span>', '', html)
RECURSIVE DropVerdana(_)
DropVerdana(toks) ==
    IF toks = <<>> THEN <<>>
    ELSE LET j == FirstIndex({i \in 2..Len(toks) : IsClose(toks[i], "span")})
         IN IF IsOpen(Head(toks), "span") /\ Head(toks).style = "verdana" /\ j # 0
            THEN DropVerdana(Drop(toks, j))
            ELSE <<Head(toks)>> \o DropVerdana(Tail(toks))

\* Within one string: remove from each occurrence of start up to the first
\* ")" after it, when at least min characters lie between.
RECURSIVE DropParen(_, _, _)
DropParen(text, start, min) ==
    IF text = <<>> THEN <<>>
    ELSE LET after == Drop(text, Len(start))
             closes == {i \in 1..Len(after) : after[i] = ")"}
             j == CHOOSE i \in closes : \A k \in closes : i <= k
         IN IF StartsWith(Lower(text), start) /\ closes # {} /\ j - 1 >= min
            THEN DropParen(Drop(after, j), start, min)
            ELSE <<Head(text)>> \o DropParen(Tail(text), start, min)

InText(toks, start, min) ==
    [i \in 1..Len(toks) |->
        IF toks[i].k = "text" THEN [toks[i] EXCEPT !.s = DropParen(@, start, min)] ELSE toks[i]]

instruction_parens == <<<<"(", "u", "n", "d", "e", "r", "r", "u", "b", "r", "i", "k", ":">>,
    <<"(", "m", "å", "l", "e", "n", " ", "s", "o", "m", " ", "s", "t", "å", "r", " ", "i", " ", "g", "e", "n", "o", "m", "f", "ö", "r", "a", "n", "d", "e", "p", "l", "a", "n", "e", "n">>,
    <<"(", "a", "n", "h", "ö", "r", "i", "g", "i", "n", "t", "r", "o", "d", "u", "k", "t", "i", "o", "n">>,
    <<"(", "s", "a", "m", "t", "a", "l", "/">>>>

RECURSIVE DropInstructionParens(_, _)
DropInstructionParens(toks, i) ==
    IF i > Len(instruction_parens) THEN toks
    ELSE DropInstructionParens(
             InText(toks, instruction_parens[i], 0), i + 1)

\* re.sub(r'<span[^>]*>.*?genomförandeplanen.*?</span>', '', html, DOTALL|IGNORECASE)
RECURSIVE DropSpanToPhrase(_, _)
DropSpanToPhrase(toks, phrase) ==
    IF toks = <<>> THEN <<>>
    ELSE LET k == FirstIndex({i \in 2..Len(toks) :
                      toks[i].k = "text" /\ Contains(Lower(toks[i].s), phrase)})
             j == IF k = 0 THEN 0 ELSE FirstIndex({i \in k..Len(toks) : IsClose(toks[i], "span")})
         IN IF IsOpen(Head(toks), "span") /\ j # 0
            THEN DropSpanToPhrase(Drop(toks, j), phrase)
            ELSE <<Head(toks)>> \o DropSpanToPhrase(Tail(toks), phrase)

\* re.sub(r'<span[^>]*>\(.*?planerade\.\)</span>', '', html, DOTALL|IGNORECASE)
RECURSIVE DropPlannedSpan(_)
DropPlannedSpan(toks) ==
    IF toks = <<>> THEN <<>>
    ELSE LET j == FirstIndex({i \in 3..Len(toks) : IsClose(toks[i], "span")})
             ends == {i \in 3..Len(toks) :
                        /\ IsClose(toks[i], "span")
                        /\ toks[i - 1].k = "text"
                        /\ EndsWith(Lower(toks[i - 1].s), <<"p", "l", "a", "n", "e", "r", "a", "d", "e", ".", ")">>)}
             e == CHOOSE i \in ends : \A m \in ends : i <= m
         IN IF /\ IsOpen(Head(toks), "span") /\ Len(toks) >= 3
               /\ toks[2].k = "text" /\ StartsWith(toks[2].s, <<"(">>)
               /\ ends # {}
            THEN DropPlannedSpan(Drop(toks, e))
            ELSE <<Head(toks)>> \o DropPlannedSpan(Tail(toks))

\* re.sub(r'<span><br/></span>', '', html): a span without attributes.
RECURSIVE DropSpanBr(_)
DropSpanBr(toks) ==
    IF toks = <<>> THEN <<>>
    ELSE IF /\ Len(toks) >= 3 /\ IsOpen(toks[1], "span") /\ toks[1].style = ""
            /\ IsBr(toks[2]) /\ IsClose(toks[3], "span")
         THEN DropSpanBr(Drop(toks, 3))
         ELSE <<Head(toks)>> \o DropSpanBr(Tail(toks))

\* Steps 1 to 11; step 11 is three rounds of the empty-paragraph
\* substitutions.  The substitutions that look for the literal entity
\* "&nbsp;" match nothing: str(soup) writes the character, which \s matches.
mo_cleanup(html) ==
    LET NoEmptyText(toks) == SelectSeq(toks, LAMBDA t : t.k # "text" \/ t.s # <<>>)
        PEmptyStrong == <<Pat("open", "p", FALSE), Pat("open", "strong", TRUE),
                          Pat("close", "strong", TRUE), Pat("close", "p", TRUE)>>
        FinalPass(toks) == DropPattern(DropEmpty(toks, "p"), PEmptyStrong)
        c1 == DropVerdana(html)
        c2 == NoEmptyText(InText(c1, <<"(">>, 100))
        c3 == DropPlannedSpan(DropSpanToPhrase(
                  NoEmptyText(DropInstructionParens(c2, 1)), <<"g", "e", "n", "o", "m", "f", "ö", "r", "a", "n", "d", "e", "p", "l", "a", "n", "e", "n">>))
        c5 == DropEmpty(c3, "p")
        c6 == DropPattern(c5, PEmptyStrong)
        nested == <<Pat("open", "strong", FALSE), Pat("open", "strong", TRUE),
                    Pat("close", "strong", TRUE), Pat("close", "strong", TRUE)>>
        c7 == DropEmpty(DropPattern(c6, nested), "strong")
        c8 == DropEmpty(DropSpanBr(DropEmptyPlainSpan(c7)), "span")
        c9 == CollapseBr(c8)
    IN FinalPass(FinalPass(FinalPass(c9)))

\* ------------------------------------------------------------------ reparse
\* The metadata replacement each reconciler applies before it parses again.
Substitute(text, day, m) ==
    LET
        vp_metadata_dates ==
            {<<"[", "D", "a", "g", "e", "n", "s", " ", "d", "a", "t", "u", "m", "]">>,
            <<"[", "D", "A", "G", "E", "N", "S", " ", "D", "A", "T", "U", "M", "]">>}
        vp_metadata_blanks == {<<"[", "F", "ö", "r", "n", "a", "m", "n", "]">>,
            <<"[", "F", "Ö", "R", "N", "A", "M", "N", "]">>,
            <<"[", "E", "f", "t", "e", "r", "n", "a", "m", "n", "]">>,
            <<"[", "E", "F", "T", "E", "R", "N", "A", "M", "N", "]">>,
            <<"[", "P", "e", "r", "s", "o", "n", "n", "u", "m", "m", "e", "r", "]">>,
            <<"[", "P", "E", "R", "S", "O", "N", "N", "U", "M", "M", "E", "R", "]">>,
            <<"[", "D", "O", "K", "U", "M", "E", "N", "T", "N", "A", "M", "N", "]">>,
            <<"[", "N", "a", "m", "n", "]">>, <<"[", "N", "A", "M", "N", "]">>}
        mo_metadata_blanks == {<<"[", "F", "ö", "r", "n", "a", "m", "n", "]">>,
            <<"[", "F", "Ö", "R", "N", "A", "M", "N", "]">>,
            <<"[", "E", "f", "t", "e", "r", "n", "a", "m", "n", "]">>,
            <<"[", "E", "F", "T", "E", "R", "N", "A", "M", "N", "]">>,
            <<"[", "P", "e", "r", "s", "o", "n", "n", "u", "m", "m", "e", "r", "]">>,
            <<"[", "P", "E", "R", "S", "O", "N", "N", "U", "M", "M", "E", "R", "]">>,
            <<"[", "D", "O", "K", "U", "M", "E", "N", "T", "N", "A", "M", "N", "]">>}
    IN
    IF m = "generic" THEN ReplaceMetadata(text, day)
    ELSE ReplaceEach(ReplaceEach(text, vp_metadata_dates, strftime(day)),
                     IF m = "vardplan" THEN vp_metadata_blanks ELSE mo_metadata_blanks, <<>>)

\* The document as the parser will read it back from str(soup), with the
\* metadata tokens replaced.
RECURSIVE Unparse(_, _, _, _)
Unparse(h, n, day, m) ==
    IF h[n].tag = "#text" THEN Txt(Substitute(h[n].txt, day, m))
    ELSE LET ks == [i \in 1..Len(h[n].kids) |-> Unparse(h, h[n].kids[i], day, m)]
             kept == SelectSeq(ks, LAMBDA t : t.tag # "#text" \/ t.txt # <<>>)
         IN El(h[n].tag, h[n].style, MergeText(kept))

\* soup = BeautifulSoup(str(soup), 'html.parser'): a second tree in the heap.
Reparse(h, root, day, m) == h \o Flat(Unparse(h, root, day, m), 0, Len(h) + 1)

\* ------------------------------------------------------------------ inputs
HeaderA == <<"H", "a", "l">>

HeaderB == <<"X", "y", "z">>

Instruction == <<"(", "x", ")">>

P(kids) == El("p", "", kids)


Strong(name) == El("strong", "", <<Txt(name)>>)

Img == El("img", "", <<>>)

Table(rows) == El("table", "", rows)

Tr(cells) == El("tr", "", cells)

Td(style, kids) == El("td", style, kids)

Mappers == {"generic", "vardplan", "monthly"}

\* Top-level pieces a template is assembled from, per reconciler.
Frags(m) ==
    IF m = "generic" THEN
        { P(<<Strong(HeaderA)>>),
          P(<<Strong(HeaderB), Strong(HeaderA)>>),
          P(<<Img, Strong(HeaderA)>>),
          P(<<Strong(HeaderA), Txt(Instruction)>>),
          Strong(HeaderA),
          P(<<Txt(Instruction)>>),
          P(<<Txt(<<"S", "t", "a", "t", "i", "c">>)>>),
          Img,
          Txt(MetaDate),
          Table(<<Tr(<<Td("gray", <<Txt(HeaderA)>>), Td("", <<Txt(Instruction)>>)>>)>>),
          Table(<<Tr(<<Td("gray", <<Txt(HeaderA)>>)>>)>>),
          Table(<<Tr(<<Td("gray", <<Strong(HeaderA)>>), Td("", <<Txt(Instruction)>>)>>)>>) }
    ELSE IF m = "vardplan" THEN
        { P(<<Strong(HeaderA)>>),
          P(<<Img, Strong(HeaderB), Strong(HeaderA)>>),
          Strong(HeaderA),
          P(<<Txt(Instruction)>>),
          Img,
          Txt(MetaDate),
          Table(<<Tr(<<Td("", <<El("span", "bold", <<Txt(HeaderA)>>), Txt(Instruction)>>)>>)>>),
          Table(<<Tr(<<Td("", <<Img, El("span", "", <<Strong(HeaderA)>>)>>)>>)>>) }
    ELSE
        { P(<<Strong(HeaderA)>>),
          P(<<Strong(HeaderA), Txt(Instruction)>>),
          El("p", "w650", <<Txt(HeaderA)>>),
          El("p", "w650", <<Strong(HeaderB), Txt(HeaderA)>>),
          Img,
          Txt(MetaDate),
          Table(<<Tr(<<Td("gray", <<Txt(HeaderA)>>), Td("", <<Txt(Instruction)>>)>>)>>),
          Table(<<Tr(<<Td("gray", <<Txt(HeaderA)>>)>>)>>) }

BulletLists == {<<>>, <<<<"o", "k">>, <<"n", "o">>>>, <<<<" ", "I", "n", "f", "o", "r", "m", "a", "t", "i", "o", "n", " ", "m", "i", "s", "s", "i", "n", "g">>>>}

\* A dict keeps its keys distinct and iterates them in insertion order.
BlockMaps ==
    {b \in UNION {[1..n -> [key : {HeaderA, <<"h", "a", "l", " ">>, <<"H", "a", "l", "s">>}, bullets : BulletLists]] : n \in 0..MaxBlocks} :
        \A i, j \in 1..Len(b) : i # j => b[i].key # b[j].key}

Days == {1, 2}

\* ------------------------------------------------------------------ state
VARIABLES
    mapper,             \* which reconciler the caller uses
    template_html,      \* argument: the template, as the parser reads it
    section_bullets,    \* argument: the block map
    today,              \* the day datetime.now() falls on
    heap,               \* every node the call has created
    template_structure, \* result of the analyzer, passed to the mapper
    soup,               \* root of the tree the mapper serializes
    sections,           \* the mapper's section list
    idx,                \* position of the section loop
    pc,                 \* "start", "analyzed", "loop", "done", "raised"
    out,                \* the string returned
    done,               \* per processed section: path taken and match found
    runs,               \* calls the caller has made with these arguments
    first_out,          \* what the first call returned
    calls,              \* the collaborators the request handler has called
    response,           \* the handler's answer: "none" until it is sent
    returns,            \* calls of return_json
    imported,           \* import statements of the handler's try block that succeeded
    futures,            \* the extraction tasks given to the pool, per file document
    processed_documents \* the documents whose text the handler has

vars == <<mapper, template_html, section_bullets, today, heap, template_structure, soup,
          sections, idx, pc, out, done, runs, first_out, calls, response, returns, imported,
          futures, processed_documents>>

args == <<mapper, template_html, section_bullets, today, runs, first_out, calls, response,
          returns, imported, futures, processed_documents>>

\* The import statements in the try block at the head of the handler's
\* module: pyodbc, save_logs (log_debug), and eleven more.
import_statements == 13

Fresh ==
    /\ heap = <<>>
    /\ template_structure = [sections |-> <<>>, template_type |-> "unknown", soup |-> 0]
    /\ soup = 0
    /\ sections = <<>>
    /\ idx = 0
    /\ pc = "start"
    /\ out = <<>>
    /\ done = <<>>
    /\ calls = {}
    /\ response = "none"
    /\ returns = 0
    /\ imported = import_statements
    /\ futures = <<>>
    /\ processed_documents = <<0>>

Init ==
    /\ mapper \in Mappers
    /\ template_html \in UNION {[1..n -> Frags(mapper)] : n \in 1..MaxTop}
    /\ section_bullets \in BlockMaps
    /\ today = 1
    /\ runs = 1
    /\ first_out = <<>>
    /\ Fresh

\* template_structure = analyze_template(template_html)
Analyze ==
    /\ mapper = "generic"
    /\ pc = "start"
    /\ heap' = Parse(template_html)
    /\ template_structure' = analyze_template(heap', 1)
    /\ pc' = "analyzed"
    /\ UNCHANGED <<args, soup, sections, idx, out, done>>

\* template_structure = analyze_vardplan_template(template_html)
VpAnalyze ==
    /\ mapper = "vardplan"
    /\ pc = "start"
    /\ heap' = Parse(template_html)
    /\ template_structure' = analyze_vardplan_template(heap', 1)
    /\ pc' = "analyzed"
    /\ UNCHANGED <<args, soup, sections, idx, out, done>>

\* template_structure = analyze_monthly_template(template_html)
MoAnalyze ==
    /\ mapper = "monthly"
    /\ pc = "start"
    /\ heap' = Parse(template_html)
    /\ template_structure' = analyze_monthly_template(heap', 1)
    /\ pc' = "analyzed"
    /\ UNCHANGED <<args, soup, sections, idx, out, done>>

\* map_bullets_to_template, up to the section loop: substitute the metadata
\* in the serialized document, parse it again, and detect the sections again
\* when the template type is table or text.
MapStart ==
    /\ mapper = "generic"
    /\ pc = "analyzed"
    /\ heap' = Reparse(heap, template_structure.soup, today, mapper)
    /\ soup' = Len(heap) + 1
    /\ sections' =
         IF template_structure.template_type = "table"
         THEN detect_table_based_sections(heap', soup')
         ELSE IF template_structure.template_type = "text"
         THEN detect_text_based_sections(heap', soup')
         ELSE template_structure.sections
    /\ idx' = 1
    /\ pc' = "loop"
    /\ UNCHANGED <<args, template_structure, out, done>>

\* map_vardplan_bullets, up to the section loop: replace the metadata in the
\* strings of the tree, then analyze str(soup) again and keep that tree.
VpStart ==
    /\ mapper = "vardplan"
    /\ pc = "analyzed"
    /\ heap' = Reparse(heap, template_structure.soup, today, mapper)
    /\ soup' = Len(heap) + 1
    /\ sections' = analyze_vardplan_template(heap', soup').sections
    /\ idx' = 1
    /\ pc' = "loop"
    /\ UNCHANGED <<args, template_structure, out, done>>

\* map_monthly_bullets, up to the section loop.
MoStart ==
    /\ mapper = "monthly"
    /\ pc = "analyzed"
    /\ heap' = Reparse(heap, template_structure.soup, today, mapper)
    /\ soup' = Len(heap) + 1
    /\ sections' = analyze_monthly_template(heap', soup').sections
    /\ idx' = 1
    /\ pc' = "loop"
    /\ UNCHANGED <<args, template_structure, out, done>>

Done(path, m, ok) == [path |-> path, blk |-> m.blk, strat |-> m.strat, ok |-> ok]

\* One iteration of "for section in sections" in map_bullets_to_template.
MapSection ==
    /\ mapper = "generic"
    /\ pc = "loop"
    /\ idx <= Len(sections)
    /\ LET section == sections[idx]
           m == FindMatch(section_bullets, section.name)
           matched_bullets == IF m.blk = 0 THEN <<>> ELSE section_bullets[m.blk].bullets
           has_content == HasContent(matched_bullets, placeholder_texts)
           r == IF has_content
                THEN IF section.type = "table"
                     THEN map_table_section(heap, section, matched_bullets, idx)
                     ELSE map_text_section(heap, section, matched_bullets, idx)
                ELSE IF section.type = "table"
                     THEN Result(remove_table_section(heap, section), FALSE)
                     ELSE Result(remove_text_section(heap, section), FALSE)
       IN /\ heap' = r.h
          /\ pc' = IF r.raised THEN "raised" ELSE "loop"
          /\ done' = Append(done, Done(IF has_content THEN "fill" ELSE "remove", m,
                                       ~r.raised))
    /\ idx' = idx + 1
    /\ UNCHANGED <<args, template_structure, soup, sections, out>>

\* One iteration of the loop in map_vardplan_bullets.  Every section the
\* analyzer returns has a name and one of the two types.
VpSection ==
    /\ mapper = "vardplan"
    /\ pc = "loop"
    /\ idx <= Len(sections)
    /\ LET section == sections[idx]
           m == FuzzyMatch(section_bullets, section.name)
           matched_bullets == IF m.blk = 0 THEN <<>> ELSE section_bullets[m.blk].bullets
           has_content == HasContent(matched_bullets, vp_placeholder_texts)
           r == IF has_content
                THEN IF section.type = "inline_table"
                     THEN map_inline_table_section(heap, section, matched_bullets, idx)
                     ELSE vp_map_text_section(heap, section, matched_bullets, idx)
                ELSE IF section.type = "inline_table"
                     THEN [h |-> remove_inline_table_section(heap, section), ok |-> TRUE]
                     ELSE [h |-> vp_remove_text_section(heap, section), ok |-> TRUE]
       IN /\ heap' = r.h
          /\ done' = Append(done, Done(IF has_content THEN "fill" ELSE "remove", m, r.ok))
    /\ idx' = idx + 1
    /\ UNCHANGED <<args, template_structure, soup, sections, pc, out>>

\* One iteration of the loop in map_monthly_bullets.
MoSection ==
    /\ mapper = "monthly"
    /\ pc = "loop"
    /\ idx <= Len(sections)
    /\ LET section == sections[idx]
           m == FuzzyMatch(section_bullets, section.name)
           matched_bullets == IF m.blk = 0 THEN <<>> ELSE section_bullets[m.blk].bullets
           real_bullets == SelectSeq(matched_bullets,
                                     LAMBDA b : IsRealBullet(b, mo_placeholder_texts))
           has_real_content == real_bullets # <<>>
           r == IF has_real_content
                THEN MoFill(heap, section, real_bullets, idx)
                ELSE [h |-> MoRemove(heap, section), ok |-> TRUE, skipped |-> FALSE]
       IN /\ heap' = r.h
          /\ done' = Append(done, Done(IF has_real_content THEN "fill" ELSE "remove", m,
                                       r.ok))
    /\ idx' = idx + 1
    /\ UNCHANGED <<args, template_structure, soup, sections, pc, out>>

\* What str() makes of a document object that decompose() has emptied is
\* not defined by the library: a string without the document, or an error.
Returns(html) ==
    \/ /\ heap[soup].live
       /\ out' = html
       /\ pc' = "done"
    \/ /\ ~heap[soup].live
       /\ out' = <<Tok("garbled", "", "", <<>>)>>
       /\ pc' = "done"
    \/ /\ ~heap[soup].live
       /\ out' = out
       /\ pc' = "raised"

\* A reconciler that analyzes the template again when the loop has ended.
MapRestart ==
    /\ mapper = "generic"
    /\ pc = "loop"
    /\ idx > Len(sections)
    /\ heap' = <<>>
    /\ template_structure' = [sections |-> <<>>, template_type |-> "unknown", soup |-> 0]
    /\ soup' = 0
    /\ sections' = <<>>
    /\ idx' = 0
    /\ pc' = "start"
    /\ done' = <<>>
    /\ UNCHANGED <<args, out>>

\* clean_html = clean_up_html_spacing(str(soup)); return clean_html
MapFinish ==
    /\ mapper = "generic"
    /\ pc = "loop"
    /\ idx > Len(sections)
    /\ Returns(clean_up_html_spacing(Serialize(heap, soup)))
    /\ UNCHANGED <<args, heap, template_structure, soup, sections, idx, done>>

\* html = str(soup), the four substitutions, return html
VpFinish ==
    /\ mapper = "vardplan"
    /\ pc = "loop"
    /\ idx > Len(sections)
    /\ Returns(DropEmpty(DropEmpty(DropEmptyPlainSpan(CollapseBr(Serialize(heap, soup))), "p"), "div"))
    /\ UNCHANGED <<args, heap, template_structure, soup, sections, idx, done>>

\* html = str(soup), the Telerik cleanup, return html.  No path of
\* map_monthly_bullets removes the document object.
MoFinish ==
    /\ mapper = "monthly"
    /\ pc = "loop"
    /\ idx > Len(sections)
    /\ out' = mo_cleanup(Serialize(heap, soup))
    /\ pc' = "done"
    /\ UNCHANGED <<args, heap, template_structure, soup, sections, idx, done>>

Next ==
    \/ Analyze \/ MapStart \/ MapSection \/ MapFinish
    \/ VpAnalyze \/ VpStart \/ VpSection \/ VpFinish
    \/ MoAnalyze \/ MoStart \/ MoSection \/ MoFinish

Spec == Init /\ [][Next]_vars

\* ------------------------------------------------------------------ a second call
\* The caller analyzes and reconciles the same arguments once more, on the
\* same day or a later one.
Again ==
    /\ pc = "done"
    /\ runs = 1
    /\ runs' = 2
    /\ first_out' = out
    /\ today' \in {d \in Days : d >= today}
    /\ heap' = <<>>
    /\ template_structure' = [sections |-> <<>>, template_type |-> "unknown", soup |-> 0]
    /\ soup' = 0
    /\ sections' = <<>>
    /\ idx' = 0
    /\ pc' = "start"
    /\ out' = <<>>
    /\ done' = <<>>
    /\ UNCHANGED <<mapper, template_html, section_bullets, calls, response, returns, imported, futures, processed_documents>>

InitRerun ==
    /\ mapper \in Mappers
    /\ template_html \in {<<f>> : f \in Frags(mapper)}
    /\ section_bullets \in BlockMaps
    /\ today = 1
    /\ runs = 1
    /\ first_out = <<>>
    /\ Fresh

SpecRerun == InitRerun /\ [][Next \/ Again]_vars

\* ------------------------------------------------------------------ the request handler
\* main() of the POST handler, from the analysis of the template on.  The
\* report type chooses the analyzer and the reconciler; the summarizers are
\* collaborators that return a block map, empty when they fail.
\* return_json(data, status_code): the status line, the headers and the body
\* on stdout, then sys.exit(0); SystemExit is no Exception, so no except
\* clause of the handler catches it.
return_json(answer) ==
    /\ response' = answer
    /\ returns' = returns + 1
    /\ pc' = "answered"

find_unmapped_sections(template_sections, mapped_sections) ==
    LET vocabulary == placeholder_texts \cup
            {<<"i", "n", "f", "o", "r", "m", "a", "t", "i", "o", "n", " ", "s", "a", "k", "n", "a", "s", " ", "i", " ", "d", "o", "k", "u", "m", "e", "n", "t", "e", "n">>}
        needs(name) ==
            LET m == FuzzyMatch(mapped_sections, name)
            IN m.blk = 0 \/ ~HasContent(mapped_sections[m.blk].bullets, vocabulary)
    IN SelectSeq(template_sections, needs)

\* section_bullets.update(unmapped_bullets)
RECURSIVE Update(_, _)
Update(d, e) ==
    IF e = <<>> THEN d
    ELSE LET at == {i \in 1..Len(d) : d[i].key = Head(e).key}
         IN Update(IF at = {} THEN Append(d, Head(e))
                   ELSE [i \in 1..Len(d) |-> IF i \in at THEN Head(e) ELSE d[i]],
                   Tail(e))

\* The template branch when the analyzer found sections: summaries for the
\* section names, the filter on the template's names, then summaries for the
\* sections still without content.
Generate ==
    /\ pc = "analyzed"
    /\ template_structure.sections # <<>>
    /\ "summaries" \notin calls
    /\ LET section_names == [i \in 1..Len(template_structure.sections) |->
                                template_structure.sections[i].name]
           names == {section_names[i] : i \in 1..Len(section_names)}
       IN \E ai_result \in BlockMaps, bullets \in BulletLists :
            LET filtered_bullets == SelectSeq(ai_result, LAMBDA b : b.key \in names)
                unmapped_sections == find_unmapped_sections(section_names, filtered_bullets)
                unmapped_bullets == [i \in 1..Len(unmapped_sections) |->
                                       [key |-> unmapped_sections[i], bullets |-> bullets]]
            IN section_bullets' = Update(filtered_bullets, unmapped_bullets)
    /\ calls' = calls \cup {"summaries"}
    /\ UNCHANGED <<mapper, template_html, today, runs, first_out, response, returns, imported, futures, processed_documents,
                   heap, template_structure, soup, sections, idx, pc, out, done>>

\* A handler without the test on the number of sections: it goes on to the
\* summaries and the reconciler with what the analyzer returned.
NoFallback ==
    /\ pc = "analyzed"
    /\ template_structure.sections = <<>>
    /\ "summaries" \notin calls
    /\ calls' = calls \cup {"summaries"}
    /\ UNCHANGED <<mapper, template_html, section_bullets, today, runs, first_out, response,
                   returns, imported, futures, processed_documents, heap, template_structure, soup, sections, idx, pc, out, done>>

\* The analyzer found no section: doc_template_query = None, and the handler
\* falls through to the mode with dynamic headers and answers with its
\* result, or with its error.
Fallback ==
    /\ pc = "analyzed"
    /\ template_structure.sections = <<>>
    /\ calls' = calls \cup {"bullets"}
    /\ \E answer \in {"dynamic", "dynamic error"} : return_json(answer)
    /\ UNCHANGED <<mapper, template_html, section_bullets, today, runs, first_out, imported, futures, processed_documents, heap,
                   template_structure, soup, sections, idx, out, done>>

\* return_json(response) after the reconciler, or the handler's except clause.
Respond ==
    /\ pc \in {"done", "raised"}
    /\ return_json(IF pc = "done" THEN "template" ELSE "internal error")
    /\ UNCHANGED <<mapper, template_html, section_bullets, today, runs, first_out, calls, imported, futures,
                   processed_documents,
                   heap, template_structure, soup, sections, idx, out, done>>

InitRequest ==
    /\ mapper \in Mappers
    /\ template_html \in {<<f>> : f \in Frags(mapper)}
    /\ section_bullets = <<>>
    /\ today = 1
    /\ runs = 1
    /\ first_out = <<>>
    /\ Fresh

NextRequest ==
    \/ Analyze \/ VpAnalyze \/ MoAnalyze
    \/ Generate
    \/ Fallback
    \/ "summaries" \in calls /\ (MapStart \/ VpStart \/ MoStart)
    \/ MapSection \/ VpSection \/ MoSection
    \/ MapFinish \/ VpFinish \/ MoFinish
    \/ Respond

SpecRequest == InitRequest /\ [][NextRequest]_vars

\* ------------------------------------------------------------------ main
\* main() from its first line.  Document 0 is an HTML document, documents
\* 1..n are file documents, each extracted by a task of the pool.
max_workers == 4

MaxFiles == 5

\* The handler's first lines.  An import that fails leaves the names of the
\* later import statements unbound: without log_debug the first line raises
\* NameError, and so does the first line of the except clause.
Start ==
    /\ pc = "boot"
    /\ IF imported < 2
       THEN pc' = "crashed" /\ UNCHANGED <<response, returns>>
       ELSE IF imported < import_statements
            THEN return_json("missing dependencies")
            ELSE pc' = "read" /\ UNCHANGED <<response, returns>>
    /\ UNCHANGED <<mapper, template_html, section_bullets, today, runs, first_out, calls, imported, futures,
                   processed_documents,
                   heap, template_structure, soup, sections, idx, out, done>>

\* data = read_post_data(): each refusal is a return_json of its own.  A
\* body that is JSON but no object fails at the first data.get, in the
\* handler's try block.
read_post_data ==
    /\ pc = "read"
    /\ \E request \in {"not POST", "no length", "bad length", "unreadable", "empty",
                        "bad JSON", "no object", "object"} :
         IF request = "object" THEN pc' = "query" /\ UNCHANGED <<response, returns>>
         ELSE return_json(IF request = "no object" THEN "internal error" ELSE "bad request")
    /\ UNCHANGED <<mapper, template_html, section_bullets, today, runs, first_out, calls, imported, futures,
                   processed_documents,
                   heap, template_structure, soup, sections, idx, out, done>>

\* The parameters, the SQL query and the split of its rows into HTML
\* documents, converted here, and file documents.
Query ==
    /\ pc = "query"
    /\ \E sql \in {"missing", "raises", "no rows", "rows"} :
         IF sql # "rows"
         THEN /\ return_json(CASE sql = "missing" -> "missing sql_query"
                               [] sql = "raises" -> "internal error"
                               [] OTHER -> "no documents")
              /\ UNCHANGED <<futures, processed_documents>>
         ELSE \E html_docs \in 0..1, file_docs \in 0..MaxFiles :
                /\ html_docs + file_docs > 0
                /\ processed_documents' = [i \in 1..html_docs |-> 0]
                /\ futures' = [d \in 1..file_docs |->
                                  [state |-> "new", success |-> FALSE, yielded |-> FALSE]]
                /\ pc' = "pool"
                /\ UNCHANGED <<response, returns>>
    /\ UNCHANGED <<mapper, template_html, section_bullets, today, runs, first_out, calls,
                   imported, heap, template_structure, soup, sections, idx, out, done>>

\* with ThreadPoolExecutor(max_workers=4): one task submitted per file
\* document.
Submit ==
    /\ pc = "pool"
    /\ futures' = [d \in 1..Len(futures) |-> [futures[d] EXCEPT !.state = "pending"]]
    /\ pc' = "collect"
    /\ UNCHANGED <<mapper, template_html, section_bullets, today, runs, first_out, calls,
                   response, returns, imported, processed_documents,
                   heap, template_structure, soup, sections, idx, out, done>>

\* A worker thread that is free takes a task from the queue.
Work ==
    /\ pc = "collect"
    /\ Cardinality({d \in 1..Len(futures) : futures[d].state = "running"}) < max_workers
    /\ \E d \in 1..Len(futures) :
         /\ futures[d].state = "pending"
         /\ futures' = [futures EXCEPT ![d].state = "running"]
    /\ UNCHANGED <<mapper, template_html, section_bullets, today, runs, first_out, calls,
                   response, returns, imported, processed_documents, pc,
                   heap, template_structure, soup, sections, idx, out, done>>

\* process_single_file on its worker: process_file succeeds, reports a
\* failure, or raises, and what it raises is caught and reported as a failure.
process_single_file ==
    /\ pc = "collect"
    /\ \E d \in 1..Len(futures), result \in {"success", "failure", "exception"} :
         /\ futures[d].state = "running"
         /\ futures' = [futures EXCEPT ![d].state = "done", ![d].success = (result = "success")]
    /\ UNCHANGED <<mapper, template_html, section_bullets, today, runs, first_out, calls,
                   response, returns, imported, processed_documents, pc,
                   heap, template_structure, soup, sections, idx, out, done>>

\* for future in as_completed(future_to_doc): the main thread takes a
\* finished task and appends its document when the task succeeded.
Collect ==
    /\ pc = "collect"
    /\ \E d \in 1..Len(futures) :
         /\ futures[d].state = "done" /\ ~futures[d].yielded
         /\ futures' = [futures EXCEPT ![d].yielded = TRUE]
         /\ processed_documents' = IF futures[d].success THEN Append(processed_documents, d)
                                   ELSE processed_documents
    /\ UNCHANGED <<mapper, template_html, section_bullets, today, runs, first_out, calls,
                   response, returns, imported, pc,
                   heap, template_structure, soup, sections, idx, out, done>>

\* A handler that leaves the loop at the first task that failed.
ProcessedEarly ==
    /\ pc = "collect"
    /\ \E d \in 1..Len(futures) : futures[d].yielded /\ ~futures[d].success
    /\ pc' = "template"
    /\ UNCHANGED <<mapper, template_html, section_bullets, today, runs, first_out, calls,
                   response, returns, imported, futures, processed_documents,
                   heap, template_structure, soup, sections, idx, out, done>>

\* The loop ends when as_completed has yielded every task, and the with block
\* is left; then the test on processed_documents.
Processed ==
    /\ pc = "collect"
    /\ \A d \in 1..Len(futures) : futures[d].yielded
    /\ IF processed_documents = <<>>
       THEN return_json("no documents processed")
       ELSE pc' = "template" /\ UNCHANGED <<response, returns>>
    /\ UNCHANGED <<mapper, template_html, section_bullets, today, runs, first_out, calls, imported, futures,
                   processed_documents,
                   heap, template_structure, soup, sections, idx, out, done>>

\* Without doc_template_query the handler goes to the mode with dynamic
\* headers; with it, the template is fetched and must exist and have text.
Template ==
    /\ pc = "template"
    /\ \E query \in {"none", "raises", "no rows", "no text", "template"} :
         CASE query = "none" ->
                /\ calls' = calls \cup {"bullets"}
                /\ \E answer \in {"dynamic", "dynamic error"} : return_json(answer)
                /\ UNCHANGED template_html
           [] query = "template" ->
                /\ template_html' \in {<<P(<<Strong(HeaderA)>>)>>, <<P(<<Txt(Instruction)>>)>>}
                /\ pc' = "start"
                /\ UNCHANGED <<calls, response, returns>>
           [] OTHER ->
                /\ return_json(CASE query = "raises" -> "internal error"
                                 [] query = "no rows" -> "template not found"
                                 [] OTHER -> "template empty")
                /\ UNCHANGED <<calls, template_html>>
    /\ UNCHANGED <<mapper, section_bullets, today, runs, first_out, imported, futures, processed_documents,
                   heap, template_structure, soup, sections, idx, out, done>>

InitMain ==
    /\ mapper \in Mappers
    /\ template_html = <<>>
    /\ section_bullets = <<>>
    /\ today = 1
    /\ runs = 1
    /\ first_out = <<>>
    /\ heap = <<>>
    /\ template_structure = [sections |-> <<>>, template_type |-> "unknown", soup |-> 0]
    /\ soup = 0
    /\ sections = <<>>
    /\ idx = 0
    /\ pc = "boot"
    /\ out = <<>>
    /\ done = <<>>
    /\ calls = {}
    /\ response = "none"
    /\ returns = 0
    /\ imported \in {0, 1, 2, import_statements - 1, import_statements}
    /\ futures = <<>>
    /\ processed_documents = <<>>

NextMain ==
    \/ Start \/ read_post_data \/ Query
    \/ Submit \/ Work \/ process_single_file \/ Collect \/ Processed
    \/ Template
    \/ NextRequest

SpecMain == InitMain /\ [][NextMain]_vars

\* ------------------------------------------------------------------ single fragments
\* Templates of one top-level piece, with layouts the pairs above leave out,
\* and block maps that name either header or a part of one.
MoreFrags(m) ==
    IF m = "generic" THEN
        { El("div", "", <<Strong(HeaderA), P(<<Strong(HeaderB)>>), Txt(Instruction)>>),
          El("div", "", <<P(<<Strong(HeaderA)>>), P(<<Strong(HeaderB)>>), P(<<Txt(Instruction)>>)>>),
          Table(<<Tr(<<Td("gray", <<Txt(Instruction)>>), Td("", <<>>)>>)>>),
          Table(<<Tr(<<Td("gray", <<Txt(HeaderA)>>), Td("", <<Txt(Instruction)>>), Td("", <<Img>>)>>),
                  Tr(<<Td("gray", <<Txt(HeaderB)>>), Td("", <<Txt(Instruction)>>)>>)>>) }
    ELSE IF m = "vardplan" THEN
        { Table(<<Tr(<<Td("", <<Strong(Instruction)>>)>>)>>),
          Table(<<Tr(<<Td("", <<Strong(HeaderA), Strong(HeaderB)>>)>>)>>) }
    ELSE
        { Table(<<Tr(<<Td("gray", <<Txt(Instruction)>>), Td("", <<>>)>>)>>),
          Table(<<Tr(<<Td("gray", <<Txt(HeaderA)>>), Td("", <<Txt(Instruction)>>), Td("", <<Img>>)>>),
                  Tr(<<Td("gray", <<Txt(HeaderB)>>), Td("", <<Txt(Instruction)>>)>>)>>) }

NameMaps ==
    LET names == {HeaderA, HeaderB, <<"a", "l", " ">>}
        blocks == [key : names, bullets : {<<<<"o", "k">>, <<"n", "o">>>>}]
    IN {b \in UNION {[1..n -> blocks] : n \in 0..MaxBlocks} :
           \A i, j \in 1..Len(b) : i # j => b[i].key # b[j].key}

InitSingle ==
    /\ mapper \in Mappers
    /\ template_html \in {<<f>> : f \in Frags(mapper) \cup MoreFrags(mapper)}
    /\ section_bullets \in NameMaps
    /\ today = 1
    /\ runs = 1
    /\ first_out = <<>>
    /\ Fresh

SpecSingle == InitSingle /\ [][Next]_vars

\* The reconciler is one sequential call: a step that can be taken is taken.
\* This is WF_vars(Next), with ENABLED <<Next>>_vars written as the condition
\* on pc under which the call has a next step.
SpecFair ==
    SpecSingle /\ ([]<>(pc \notin {"start", "analyzed", "loop"}) \/ []<><<Next>>_vars)

\* ------------------------------------------------------------------ spacing
\* Templates that end in line breaks and wrappers for the final cleanup: a
\* fragment with a section, followed by one of the spacers.
InitSpacing ==
    LET Br == El("br", "", <<>>)
        Span(kids) == El("span", "", kids)
        Div(kids) == El("div", "", kids)
        spacers == { P(<<Br, Br, Span(<<>>), Br, Br>>),
                     P(<<Br, Br, Br, Br>>),
                     Div(<<Div(<<>>)>>),
                     Div(<<Br, Br, Br>>),
                     Div(<<Span(<<>>), Br>>),
                     P(<<>>),
                     P(<<Span(<<>>)>>),
                     Span(<<Span(<<>>)>>),
                     Div(<<P(<<Span(<<>>)>>)>>) }
    IN /\ mapper \in Mappers
       /\ template_html \in {<<f, s>> : f \in Frags(mapper), s \in spacers}
       /\ section_bullets \in NameMaps
       /\ today = 1
       /\ runs = 1
       /\ first_out = <<>>
       /\ Fresh

SpecSpacing == InitSpacing /\ [][Next]_vars

\* ------------------------------------------------------------------ properties
\* The tree the section loop starts from.
Original == Reparse(Parse(template_html), 1, today, mapper)

InOutput(n) == heap[n].live /\ Attached(heap, n, soup)

\* The lists made for section i that are in the returned document.
ListsFor(i) ==
    {n \in 1..Len(heap) : heap[n].tag = "ul" /\ heap[n].own = i /\ Attached(heap, n, soup)}

Filled(i) == InOutput(sections[i].hdr) /\ Cardinality(ListsFor(i)) = 1

Removed(i) == ~InOutput(sections[i].hdr) /\ ListsFor(i) = {}

\* C1: when a reconciliation run has returned, every section is either
\* filled (its header is in the output and exactly one list was inserted for
\* it) or removed (its header is gone and no list was inserted for it).
C1_FilledOrRemoved ==
    pc = "done" => \A i \in 1..Len(sections) : Filled(i) \/ Removed(i)

HasPlaceholderToken(text) ==
    \E i, j \in 1..Len(text) :
        /\ i < j
        /\ \/ text[i] = "(" /\ text[j] = ")"
           \/ text[i] = "[" /\ text[j] = "]"

\* C2: the returned string holds no text in (...) or [...] outside the text
\* of a rendered bullet.
C2_NoPlaceholderLeft ==
    pc = "done" =>
        \A i \in 1..Len(out) :
            out[i].k = "text" /\ ~(i > 1 /\ IsOpen(out[i - 1], "li"))
                => ~HasPlaceholderToken(out[i].s)

\* Nodes of the tree that belong to a section: a header, what it contains,
\* what contains it, and its paired cell.
SectionNodes ==
    UNION {Range(SelfAndDesc(Original, sections[i].hdr))
             \cup Range(Ancestors(Original, sections[i].hdr))
             \cup (IF sections[i].cell = 0 THEN {}
                   ELSE Range(SelfAndDesc(Original, sections[i].cell)))
           : i \in 1..Len(sections)}

\* Nodes no section owns and no forward sweep can reach: they come before
\* every header in document order.
Outside ==
    {n \in (soup + 1)..Len(Original) :
        /\ n \notin SectionNodes
        /\ \A i \in 1..Len(sections) : n < sections[i].hdr}

\* C3: a node outside every section is in the returned document as it was
\* in the template.
C3_OutsideUntouched ==
    pc = "done" => \A n \in Outside : heap[n] = Original[n] /\ Attached(heap, n, soup)

ExactBlocks(name) ==
    {b \in 1..Len(section_bullets) : Normalize(section_bullets[b].key) = Normalize(name)}

\* C4: a section that has a block whose name normalizes to the section's
\* name is matched to such a block.
C4_ExactWins ==
    \A i \in 1..Len(done) :
        ExactBlocks(sections[i].name) # {} => done[i].blk \in ExactBlocks(sections[i].name)

RealCount(bullets) ==
    Cardinality({k \in 1..Len(bullets) : IsRealBullet(bullets[k], placeholder_texts)})

\* C5: a section that took the fill path has exactly one list in the
\* returned document, with one item per content-valid bullet of its block.
C5_OneListOfRealBullets ==
    pc = "done" =>
        \A i \in 1..Len(done) :
            done[i].path = "fill" =>
                /\ Cardinality(ListsFor(i)) = 1
                /\ \A n \in ListsFor(i) :
                       Len(heap[n].kids) = RealCount(section_bullets[done[i].blk].bullets)

\* C6: a section takes the fill path exactly when its matched block has a
\* bullet that is non-empty and outside the placeholder vocabulary.
C6_FillIffRealContent ==
    \A i \in 1..Len(done) :
        (done[i].path = "fill") <=>
            /\ done[i].blk # 0
            /\ HasContent(section_bullets[done[i].blk].bullets, placeholder_texts)

\* C7: the second of two calls with the same arguments returns the string
\* the first call returned.
C7_SameOutputAgain ==
    runs = 2 /\ pc = "done" => out = first_out

\* C8: a section whose list could not be inserted has no header in the
\* returned document.
C8_FailedInsertRemoves ==
    pc = "done" =>
        \A i \in 1..Len(done) :
            done[i].path = "fill" /\ ~done[i].ok => ~InOutput(sections[i].hdr)

\* C9: no call of a reconciler raises.
C9_NeverRaises == pc # "raised"

\* C10: the names of the sections an analyzer returns are pairwise distinct.
C10_DistinctNames ==
    \A i, j \in 1..Len(template_structure.sections) :
        i # j => template_structure.sections[i].name # template_structure.sections[j].name

\* C11: the section list of an analysis is grouped by confidence, high before
\* medium before low, and inside one group the sections stand in document
\* order (nodes are numbered in document order).
C11_TierThenDocumentOrder ==
    LET s == template_structure.sections
        tier(c) == IF c.conf = "high" THEN 1 ELSE IF c.conf = "medium" THEN 2 ELSE 3
    IN \A i, j \in 1..Len(s) :
           i < j => \/ tier(s[i]) < tier(s[j])
                    \/ tier(s[i]) = tier(s[j]) /\ s[i].hdr <= s[j].hdr

\* C12: the template type of an analysis is table exactly when there are
\* sections and all are table-shaped, text exactly when there are sections
\* and none is table-shaped, mixed exactly when both kinds occur, and unknown
\* exactly when there is no section.
C12_TemplateType ==
    LET s == template_structure.sections
        kind == template_structure.template_type
        tables == {i \in 1..Len(s) : s[i].type \in {"table", "inline_table"}}
        others == (1..Len(s)) \ tables
    IN /\ kind \in {"table", "inline_table"} <=> tables # {} /\ others = {}
       /\ kind = "text" <=> others # {} /\ tables = {}
       /\ kind = "mixed" <=> tables # {} /\ others # {}
       /\ kind = "unknown" <=> s = <<>>

\* C13: every section the reconciler has filled or removed has its header,
\* and its content cell if it has one, among the nodes of the tree parsed
\* after the metadata substitution (the nodes numbered from soup on), which
\* is the tree it serializes; no section of the first analysis is used.
C13_SectionsOfTheNewTree ==
    \A i \in 1..Len(done) :
        /\ sections[i].hdr >= soup
        /\ sections[i].cell # 0 => sections[i].cell >= soup

C15_FirstSuccessfulStrategy ==
    \A i \in 1..Len(done) :
        LET name == sections[i].name
            blks == section_bullets
            norm(s) == Normalize(s)
            tokens(s) == {SubSeq(s, a, b) : a \in 1..Len(s), b \in 1..Len(s)} \ {<<>>}
            words(s) == {w \in tokens(norm(s)) :
                            /\ \A k \in 1..Len(w) : w[k] # " "
                            /\ \E a \in 1..(Len(norm(s)) - Len(w) + 1) :
                                  /\ SubSeq(norm(s), a, a + Len(w) - 1) = w
                                  /\ a = 1 \/ norm(s)[a - 1] = " "
                                  /\ a + Len(w) - 1 = Len(norm(s)) \/ norm(s)[a + Len(w)] = " "}
            score(k) == (70 * Cardinality(words(name) \cap words(k)))
                            \div Cardinality(words(name) \cup words(k) \cup {<<>>})
            exact == FirstIndex({j \in 1..Len(blks) : norm(blks[j].key) = norm(name)})
            direct == FirstIndex({j \in 1..Len(blks) : blks[j].key = name})
            substring == FirstIndex({j \in 1..Len(blks) :
                             \/ Contains(norm(name), norm(blks[j].key))
                             \/ Contains(norm(blks[j].key), norm(name))})
            overlap == FirstIndex({j \in 1..Len(blks) : score(blks[j].key) >= 50})
            first == IF exact # 0 THEN [blk |-> exact, strat |-> "exact"]
                     ELSE IF direct # 0 THEN [blk |-> direct, strat |-> "direct"]
                     ELSE IF substring # 0 THEN [blk |-> substring, strat |-> "partial"]
                     ELSE IF overlap # 0 THEN [blk |-> overlap, strat |-> "overlap"]
                     ELSE [blk |-> 0, strat |-> "none"]
        IN /\ done[i].blk = first.blk
           /\ done[i].strat = first.strat
           /\ first.blk = 0 => done[i].path = "remove"

\* C16: no candidate of the analyzer, whatever detected it, has a name that
\* is wrapped in (...) or in [...], or that is one of the report title words.
C16_NoPlaceholderName ==
    \A i \in 1..Len(template_structure.sections) :
        LET name == Strip(template_structure.sections[i].name)
        IN /\ ~(StartsWith(name, <<"(">>) /\ EndsWith(name, <<")">>))
           /\ ~(StartsWith(name, <<"[">>) /\ EndsWith(name, <<"]">>))
           /\ Lower(name) \notin skip_titles

\* C17: while the sections are processed, the header of every section
\* still to be processed is in the document, and so are the header and the
\* list of every section already filled: processing a section deletes or
\* detaches no other section's header.
C17_OtherHeadersSurvive ==
    pc \in {"loop", "done"} =>
        \A j \in 1..Len(sections) :
            sections[j].hdr >= soup =>
                /\ j > Len(done) => InOutput(sections[j].hdr)
                /\ j <= Len(done) /\ done[j].path = "fill" /\ done[j].ok =>
                       InOutput(sections[j].hdr) /\ ListsFor(j) # {}

\* The nodes of the tree the loop started from that the run has deleted or
\* detached, topmost only.
Swept ==
    {n \in (soup + 1)..Len(Original) :
        /\ ~InOutput(n)
        /\ InOutput(Original[n].par)}

\* An empty node, a line break, or placeholder or instruction text.
Sweepable(n) ==
    LET text == IF IsText(Original, n) THEN Strip(Original[n].txt) ELSE GetText(Original, n)
    IN \/ Original[n].tag = "br"
       \/ text = <<>>
       \/ is_placeholder_text(text)
       \/ is_template_placeholder_text(text)

HoldsHeader(n, i) == sections[i].hdr \in Range(SelfAndDesc(Original, n))

\* C18: when the sections processed so far were all filled beside their
\* header, every node the run has deleted is empty, a line break or a
\* placeholder, and between it and the header (or header container) of a
\* processed section before it there is no substantial node and no other
\* section's header: the sweep stopped there.
C18_SweepStopsAtContent ==
    /\ pc \in {"loop", "done"}
    /\ \A i \in 1..Len(done) : done[i].path = "fill" /\ done[i].ok /\ sections[i].type # "table"
    => \A n \in Swept :
         LET ks == Original[Original[n].par].kids
             at == IndexOf(ks, n)
         IN /\ Sweepable(n)
            /\ \E i \in 1..Len(done), s \in 1..(at - 1) :
                 /\ HoldsHeader(ks[s], i)
                 /\ \A m \in (s + 1)..(at - 1) :
                       /\ Sweepable(ks[m])
                       /\ \A j \in 1..Len(sections) : ~HoldsHeader(ks[m], j)

\* C19: right after a section that is not a table row took the remove path,
\* whatever else of value its header's container held (text that is no
\* placeholder, another section's header) is still in the output: the
\* container went only if the header was all it held.
C19_ContainerKeptForOtherContent ==
    pc = "loop" /\ done # <<>> =>
        LET i == Len(done)
            hdr == sections[i].hdr
            others == Range(Original[Original[hdr].par].kids) \ {hdr}
            valuable(k) ==
                \/ /\ GetText(Original, k) # <<>>
                   /\ ~is_placeholder_text(GetText(Original, k))
                   /\ ~is_template_placeholder_text(GetText(Original, k))
                \/ \E j \in 1..Len(sections) : j # i /\ HoldsHeader(k, j)
        IN /\ done[i].path = "remove"
           /\ done[i].ok
           /\ sections[i].type # "table"
           /\ hdr > soup
           /\ Original[hdr].par # soup
           => \A k \in others : valuable(k) => InOutput(k)

\* The place of a node of the output in document order.
Place(n) == IndexOf(SelfAndDesc(heap, soup), n)

\* C20: in the returned document the headers that were kept stand in the
\* order they had in the template, and the list of a filled section comes
\* after that section's header and before the header of every section that
\* follows it in the template.
C20_ListBetweenHeaders ==
    pc = "done" =>
        \A i, j \in 1..Len(done) :
            /\ sections[i].hdr >= soup /\ sections[j].hdr >= soup
            /\ InOutput(sections[i].hdr) /\ InOutput(sections[j].hdr)
            /\ sections[i].hdr < sections[j].hdr
            => /\ Place(sections[i].hdr) < Place(sections[j].hdr)
               /\ \A l \in ListsFor(i) :
                     /\ Place(sections[i].hdr) < Place(l)
                     /\ Place(l) < Place(sections[j].hdr)

\* C21: when the run has returned, for every table section that took the
\* remove path a row of the template is gone from the output with all its
\* cells (the row of the section's header cell, when that cell is a node of
\* the tree the run returns), and every row that holds no removed section's
\* header is still there.
C21_WholeRowAndNoOther ==
    pc = "done" =>
        LET gone == {i \in 1..Len(done) : done[i].path = "remove" /\ sections[i].type = "table"}
            rows == {n \in (soup + 1)..Len(Original) : Original[n].tag = "tr"}
        IN /\ \A i \in gone :
                \E r \in rows :
                    /\ sections[i].hdr > soup => sections[i].hdr \in Range(Desc(Original, r))
                    /\ \A n \in Range(SelfAndDesc(Original, r)) : ~InOutput(n)
           /\ \A r \in rows :
                (\A i \in 1..Len(done) :
                     done[i].path = "remove" => sections[i].hdr \notin Range(Desc(Original, r)))
                => InOutput(r)

\* C22: right after a table section with a paired content cell was filled,
\* that cell is in the document and holds exactly the one list made for the
\* section, and the header cell and everything below it are as they were.
C22_CellHoldsOneList ==
    pc = "loop" /\ done # <<>> =>
        LET i == Len(done)
            section == sections[i]
        IN done[i].path = "fill" /\ done[i].ok /\ section.type = "table" /\ section.cell # 0
           => /\ InOutput(section.cell)
              /\ Len(heap[section.cell].kids) = 1
              /\ heap[section.cell].kids[1] \in ListsFor(i)
              /\ Cardinality(ListsFor(i)) = 1
              /\ InOutput(section.hdr)
              /\ \A n \in Range(SelfAndDesc(Original, section.hdr)) : heap[n] = Original[n]

\* C23: when the run has returned, every section with a strong header, not
\* a table row, that found no block has lost its header, and the node that
\* followed the header (or the header's container) is gone too, or its text
\* is not in the returned string, when that text is wrapped in (...) or [...].
C23_HeaderAndInstructionGone ==
    pc = "done" =>
        \A i \in 1..Len(done) :
            LET hdr == sections[i].hdr
                bold(b) == Original[b].tag = "strong" /\ GetText(Original, b) = sections[i].name
                wrapped(k) ==
                    LET text == GetText(Original, k)
                    IN \/ StartsWith(text, <<"(">>) /\ EndsWith(text, <<")">>)
                       \/ StartsWith(text, <<"[">>) /\ EndsWith(text, <<"]">>)
                after(a) == LET sibs == FollowingSiblings(Original, a)
                            IN IF sibs = <<>> THEN {} ELSE {Head(sibs)}
                returned(k) == \E o \in 1..Len(out) :
                                  out[o].k = "text" /\ Contains(out[o].s, GetText(Original, k))
            IN /\ done[i].path = "remove" /\ done[i].ok /\ done[i].blk = 0
               /\ sections[i].type \notin {"table", "inline_table"}
               /\ (\E b \in (soup + 1)..Len(Original) : bold(b))
               => \E n \in (soup + 1)..Len(Original) :
                    /\ bold(n)
                    /\ hdr > soup => n = hdr
                    /\ ~InOutput(n)
                    /\ \A k \in after(n) \cup after(Original[n].par) :
                          wrapped(k) => ~InOutput(k) \/ ~returned(k)

\* C24: the string a reconciler returns holds no three line breaks in a
\* row and no paragraph, span or div with nothing but white space in it.
C24_NoBreakRunNoEmptyWrapper ==
    pc = "done" /\ heap[soup].live =>
        LET blank(i) == out[i].k = "text" /\ IsBlank(out[i].s)
            solid == SelectSeq([i \in 1..Len(out) |-> i], LAMBDA i : ~blank(i))
        IN \A j \in 1..Len(solid) :
             /\ j + 2 <= Len(solid) =>
                   ~(IsBr(out[solid[j]]) /\ IsBr(out[solid[j + 1]]) /\ IsBr(out[solid[j + 2]]))
             /\ j + 1 <= Len(solid) =>
                   \A tag \in {"p", "span", "div"} :
                       ~(IsOpen(out[solid[j]], tag) /\ IsClose(out[solid[j + 1]], tag))

\* C25: the cleanup of the generic reconciler changes nothing in a string it
\* has returned.
C25_CleanupIdempotent ==
    pc = "done" /\ mapper = "generic" /\ heap[soup].live => clean_up_html_spacing(out) = out

\* C26: on the block map the generic reconciler was given, the sections
\* find_unmapped_sections reports as unmapped are the sections the
\* reconciler removed, and the ones it does not report are the ones filled.
C26_UnmappedIffRemoved ==
    mapper = "generic" =>
        LET names == [i \in 1..Len(sections) |-> sections[i].name]
            unmapped == Range(find_unmapped_sections(names, section_bullets))
        IN \A i \in 1..Len(done) :
             sections[i].name \in unmapped <=> done[i].path = "remove"

\* C27: the handler goes past the pool only when every extraction task has
\* run and has been taken by the loop, whatever the order the tasks finish
\* in and also when some fail; at every moment processed_documents holds one
\* entry for each task taken that succeeded and none for any other.
C27_AllTasksBeforeContent ==
    LET entries(d) == Cardinality({i \in 1..Len(processed_documents) : processed_documents[i] = d})
    IN /\ \A d \in 1..Len(futures) :
            entries(d) = IF futures[d].yielded /\ futures[d].success THEN 1 ELSE 0
       /\ pc \notin {"boot", "read", "query", "pool", "collect"} =>
            \A d \in 1..Len(futures) : futures[d].state = "done" /\ futures[d].yielded

\* More files than workers, some extractions failed, the others are in
\* processed_documents in an order that is not the order of submission, and
\* the reconciler is running.
C27_Witness ==
    /\ pc = "loop"
    /\ Len(futures) > max_workers
    /\ \E d, e \in 1..Len(futures) : ~futures[d].success /\ futures[e].success
    /\ \E i \in 1..(Len(processed_documents) - 1) : processed_documents[i] > processed_documents[i + 1]

\* C28: a request that has ended has called return_json exactly once, and
\* return_json is the last thing the handler does.
C28_ExactlyOneResponse ==
    /\ returns <= 1
    /\ returns = 1 <=> pc = "answered"
    /\ pc \in {"answered", "crashed"} => returns = 1 /\ response # "none"

\* C29: when the analyzer has returned, every strong or b node of the
\* template whose text has 2 to 200 characters, is no placeholder, is no
\* report title and is the first with that text, is the header of a section
\* of type bold and confidence high; and no section has a strong or b header
\* whose text is shorter or longer than that.
C29_BoldHeaderHigh ==
    pc = "analyzed" =>
        LET bold == SelectSeq(Desc(heap, 1), LAMBDA n : heap[n].tag \in {"strong", "b"})
            s == template_structure.sections
            passes(k) ==
                LET text == GetText(heap, bold[k])
                IN /\ Len(text) \in 2..200
                   /\ ~is_placeholder_text(text)
                   /\ Lower(text) \notin skip_titles
                   /\ \A j \in 1..(k - 1) : GetText(heap, bold[j]) # text
        IN /\ \A k \in 1..Len(bold) :
                passes(k) => \E i \in 1..Len(s) : /\ s[i].hdr = bold[k]
                                                  /\ s[i].type = "bold"
                                                  /\ s[i].conf = "high"
           /\ \A i \in 1..Len(s) :
                s[i].hdr \in Range(bold) => Len(GetText(heap, s[i].hdr)) \in 2..200

====
